---------------------------- MODULE Spec2Model ----------------------------
(***************************************************************************)
(* A model of the duplicate-file engine of Windows-Optimizer               *)
(* (src-tauri/src/file_manager.rs): FileManager::scan_duplicates,          *)
(* FileManager::cleanup_duplicates and FileManager::cleanup_temp_files     *)
(* with the helpers they call, each step of a call ending at an await;     *)
(* and of RegistryManager::delete_registry_key (registry.rs) and           *)
(* BloatwareManager::uninstall_bloatware (bloatware.rs).                   *)
(*                                                                         *)
(* Paths.  A Windows path is a record [dir, name]: dir is the sequence of  *)
(* directory components ("C:" first) and name is the file name as a        *)
(* sequence of one-character strings, so that Path::extension and          *)
(* to_lowercase are computed character by character.  A directory is the   *)
(* sequence of its components.  Path::starts_with compares whole           *)
(* components, case-sensitively.                                           *)
(***************************************************************************)
EXTENDS Integers, Sequences, FiniteSets, TLC

(***************************************************************************)
(* Bounds of the model.                                                    *)
(***************************************************************************)
\* Total number of member slots in the group list handed to
\* cleanup_duplicates (a group with no member takes one slot).
MaxRecords == 3
\* Number of ordinary files on the scanned disk.
NumFiles == 3

\* Option<&OsStr>: None, or Some(val).
None == [some |-> FALSE, val |-> <<>>]
Some(v) == [some |-> TRUE, val |-> v]

(***************************************************************************)
(* std::path helpers                                                       *)
(***************************************************************************)
\* char::to_lowercase on the letters the model's file names use.
ToLowerChar(c) ==
    CASE c = "D" -> "d"
      [] c = "L" -> "l"
      [] c = "E" -> "e"
      [] c = "X" -> "x"
      [] c = "S" -> "s"
      [] c = "Y" -> "y"
      [] OTHER -> c

\* str::to_lowercase
ToLower(s) == [i \in 1..Len(s) |-> ToLowerChar(s[i])]

\* Path::extension: None without an embedded '.', None when the only '.'
\* is the first character, else the part after the last '.'.
Extension(path) ==
    LET n == path.name
        dots == {i \in 1..Len(n) : n[i] = "."}
        k == CHOOSE i \in dots : \A j \in dots : j <= i
    IN IF dots = {} THEN None
       ELSE IF k = 1 THEN None
       ELSE Some(SubSeq(n, k + 1, Len(n)))

\* Path::file_name as one component: the characters of the name, joined.
RECURSIVE JoinChars(_)
JoinChars(cs) == IF cs = <<>> THEN "" ELSE cs[1] \o JoinChars(Tail(cs))

FileName(path) == JoinChars(path.name)

\* Path::starts_with(base): base's components are a prefix of the path's
\* components, the last of which is the file name.
StartsWith(path, base) ==
    IF Len(base) <= Len(path.dir)
    THEN SubSeq(path.dir, 1, Len(base)) = base
    ELSE base = path.dir \o << FileName(path) >>

\* starts_with for a directory (a root handed to collect_files).
DirStartsWith(directory, base) ==
    /\ Len(base) <= Len(directory)
    /\ SubSeq(directory, 1, Len(base)) = base

(***************************************************************************)
(* FileManager's classification predicates                                 *)
(***************************************************************************)
\* The literals of critical_extensions: each starts with a dot.
critical_extensions ==
    { <<".", "s", "y", "s">>, <<".", "d", "l", "l">>, <<".", "e", "x", "e">>,
      <<".", "d", "r", "v">>, <<".", "o", "c", "x">> }

critical_paths ==
    { <<"C:", "Windows", "System32">>, <<"C:", "Windows", "SysWOW64">>,
      <<"C:", "Windows", "WinSxS">> }

\* FileManager::is_critical_file
is_critical_file(path) ==
    \/ /\ Extension(path).some
       /\ ToLower(Extension(path).val) \in critical_extensions
    \/ \E cp \in critical_paths : StartsWith(path, cp)

\* FileManager::is_system_directory
is_system_directory(path) ==
    \/ StartsWith(path, <<"C:", "Windows">>)
    \/ StartsWith(path, <<"C:", "System Volume Information">>)
    \/ StartsWith(path, <<"C:", "$Recycle.Bin">>)

\* FileManager::is_system_file
is_system_file(path) ==
    \/ is_system_directory(path)
    \/ /\ Len(path.name) > 0
       /\ \/ path.name[1] = "."
          \/ path.name = <<"d","e","s","k","t","o","p",".","i","n","i">>
          \/ path.name = <<"t","h","u","m","b","s",".","d","b">>

\* FileManager::get_file_extension
get_file_extension(path) ==
    IF Extension(path).some THEN ToLower(Extension(path).val)
    ELSE <<"u","n","k","n","o","w","n">>

\* InProgramFiles without its second starts_with.
InProgramFiles_NoX86(path) ==
    StartsWith(path, <<"C:", "Program Files">>)

\* The preferred-location test of KeepStrategy::KeepInProgramFiles.
InProgramFiles(path) ==
    \/ StartsWith(path, <<"C:", "Program Files">>)
    \/ StartsWith(path, <<"C:", "Program Files (x86)">>)

(***************************************************************************)
(* State                                                                   *)
(***************************************************************************)
VARIABLES
    \* --- cleanup_duplicates: arguments and environment ---
    duplicate_groups,   \* the Vec<DuplicateGroup> argument
    keep_strategy,      \* the KeepStrategy argument
    create_backup,      \* the create_backup argument
    backupEnv,          \* what the backup directory lets the writer do
    disk,               \* the paths that exist on disk
    \* --- cleanup_duplicates: locals ---
    c_pc,               \* position in cleanup_duplicates
    c_result,           \* the CleanupResult being built
    bi,                 \* index of the member create_cleanup_backup is at
    gi,                 \* index of the group the for loop is at
    files_to_keep,      \* process_duplicate_group's keep list
    files_to_remove,    \* process_duplicate_group's remove list
    ri,                 \* index of the next file of files_to_remove
    removed_count,      \* process_duplicate_group's removed_count
    freed_space,        \* process_duplicate_group's freed_space
    \* --- cleanup_duplicates: observable effects ---
    archive,            \* the ZIP file of create_cleanup_backup
    deleteLog,          \* every safe_delete_file call of cleanup_duplicates, with its outcome
    c_remove,           \* the Remove-Item command cleanup_duplicates awaits: "idle", "found", "missing"
    \* --- scan_duplicates: arguments and environment ---
    directories,        \* the Vec<PathBuf> argument (the roots)
    fsize,              \* the byte size of each file on disk
    fhash,              \* what calculate_file_hash yields for each file
    \* --- scan_duplicates: locals ---
    s_pc,               \* position in scan_duplicates
    di,                 \* index of the root the first loop is at
    walk,               \* the files the WalkDir loop of collect_files has yet to yield
    file_count,         \* collect_files's file_count
    total_files,        \* collect_files's total_files
    all_files,          \* the Vec<FileInfo> the walker fills
    size_groups,        \* HashMap<u64, Vec<FileInfo>>
    bucket,             \* the files of the size bucket being hashed, yet to hash
    hash_groups,        \* HashMap<String, Vec<FileInfo>>
    s_result,           \* the ScanResult being built
    \* --- FileManager state and observable effects ---
    scan_results,       \* self.scan_results
    hashed,             \* every path passed to calculate_file_hash
    \* --- the process the FileManager lives in ---
    clock,              \* Utc::now(), in whole seconds
    returned,           \* the ScanResult of every scan_duplicates call that returned
    progress_callback,  \* whether the progress_callback argument is Some
    progress,           \* every ScanProgress the callback was invoked with
    backup_dir,         \* the files of self.backup_directory
    backups_made,       \* the archive of every create_cleanup_backup that returned Ok
    cleanup_calls,      \* the number of cleanup_duplicates calls made
    \* --- RegistryManager::delete_registry_key ---
    r_pc,               \* position in delete_registry_key
    key_path,           \* the key_path argument
    force,              \* the force argument
    r_calls,            \* the number of delete_registry_key calls made
    operations_log,     \* self.operations_log
    commands,           \* every command that was run, in order
    r_return,           \* what the call returned: "none", "Ok", "Err"
    \* --- BloatwareManager::uninstall_bloatware ---
    bloatware_database, \* self.bloatware_database
    b_pc,               \* position in uninstall_bloatware
    app_name,           \* the app_name argument
    b_calls,            \* the number of uninstall_bloatware calls made
    b_result,           \* the UninstallResult being built
    mi,                 \* index of the removal method the loop is at
    attempts,           \* every try_removal_method call, in order
    cleaned,            \* every perform_deep_cleanup call
    removal_log,        \* self.removal_log
    b_return,           \* what the call returned: "none", "Ok", "Err"
    \* --- cleanup_temp_files ---
    t_pc,               \* position in cleanup_temp_files
    temp_files,         \* the Vec<FileInfo> argument
    ti,                 \* index of the file the for loop is at
    t_result,           \* the CleanupResult being built
    t_remove            \* the Remove-Item command cleanup_temp_files awaits: "idle", "found", "missing"

cvars == << duplicate_groups, keep_strategy, create_backup, backupEnv, disk,
            c_pc, c_result, bi, gi, files_to_keep, files_to_remove, ri,
            removed_count, freed_space, archive, deleteLog, c_remove >>

svars == << directories, fsize, fhash, s_pc, di, walk, file_count, total_files,
            all_files, size_groups, bucket, hash_groups, s_result, scan_results,
            hashed >>

xvars == << clock, returned, progress_callback, progress, backup_dir,
            backups_made, cleanup_calls >>

rvars == << r_pc, key_path, force, r_calls, operations_log, commands, r_return >>

bvars == << bloatware_database, b_pc, app_name, b_calls, b_result, mi,
            attempts, cleaned, removal_log, b_return >>

tvars == << t_pc, temp_files, ti, t_result, t_remove >>

vars == << cvars, svars, xvars, rvars, bvars, tvars >>

(***************************************************************************)
(* Data model                                                              *)
(***************************************************************************)
KeepStrategy == {"KeepNewest", "KeepOldest", "KeepInSystem", "KeepInProgramFiles"}

\* struct FileInfo
FileInfo(path, size, modified, hash, crit) ==
    [ path |-> path, size |-> size, modified |-> modified, hash |-> hash,
      file_type |-> get_file_extension(path),
      is_system_file |-> is_system_file(path), is_critical |-> crit ]

\* struct DuplicateGroup, as scan_duplicates fills it from a member list.
DuplicateGroup(hash, files) ==
    LET total == IF files = <<>> THEN 0
                 ELSE LET RECURSIVE Sum(_)
                          Sum(i) == IF i = 0 THEN 0 ELSE files[i].size + Sum(i - 1)
                      IN Sum(Len(files))
        first == IF files = <<>> THEN 0 ELSE files[1].size
    IN [ hash |-> hash, size |-> first, files |-> files,
         total_size |-> total, potential_savings |-> total - first ]

\* struct CleanupResult as cleanup_duplicates initialises it.
EmptyCleanupResult ==
    [ files_removed |-> 0, space_freed |-> 0, errors |-> <<>>,
      backup_created |-> FALSE, backup_path |-> "None" ]

\* The decimal digits of the clock readings the model reaches.
Decimal(t) == << "0", "1", "2", "3", "4", "5", "6", "7", "8", "9" >>[t + 1]

\* format!("scan_{}", Utc::now().timestamp()): the clock in whole seconds.
ScanId(t) == "scan_" \o Decimal(t)

\* The archive path create_cleanup_backup builds:
\* cleanup_backup_<%Y%m%d_%H%M%S>.zip, the clock to the second.
BackupFile(t) == "cleanup_backup_19700101_00000" \o Decimal(t) \o ".zip"

NoArchive == [created |-> FALSE, finished |-> FALSE, entries |-> <<>>]

(***************************************************************************)
(* Inputs of cleanup_duplicates: the caller (the cleanup_duplicate_files   *)
(* command) passes any group list, so the members are drawn from records   *)
(* whose paths and flags cover the cases of the guards.                    *)
(***************************************************************************)
Users == <<"C:", "Users">>
System32 == <<"C:", "Windows", "System32">>
ProgramFiles == <<"C:", "Program Files">>
ProgramFilesX86 == <<"C:", "Program Files (x86)">>

PathA == [dir |-> Users, name |-> <<"a", ".", "t", "x", "t">>]
PathDll == [dir |-> Users, name |-> <<"l", "i", "b", ".", "D", "L", "L">>]
PathSys == [dir |-> System32, name |-> <<"c", ".", "t", "x", "t">>]
PathPf == [dir |-> ProgramFiles, name |-> <<"d", ".", "t", "x", "t">>]
PathPf86 == [dir |-> ProgramFilesX86, name |-> <<"e", ".", "t", "x", "t">>]

\* The record under C:\Program Files carries is_critical = true, a flag the
\* caller set; modification times 1 and 3 each occur twice.
CandidateRecords ==
    { FileInfo(PathA, 1000, 1, "H1", FALSE),
      FileInfo(PathDll, 2000, 2, "H1", FALSE),
      FileInfo(PathSys, 1000, 3, "H1", FALSE),
      FileInfo(PathPf, 1000, 1, "H1", TRUE),
      FileInfo(PathPf86, 1000, 3, "H1", FALSE) }

\* The member lists of at most n records.
RECURSIVE MemberLists(_)
MemberLists(n) ==
    IF n = 0 THEN {<<>>}
    ELSE LET shorter == MemberLists(n - 1)
         IN shorter \cup
            {Append(s, r) : s \in {t \in shorter : Len(t) = n - 1},
                            r \in CandidateRecords}

Slots(files) == IF files = <<>> THEN 1 ELSE Len(files)

\* The group lists that take at most n slots.
RECURSIVE GroupLists(_)
GroupLists(n) ==
    {<<>>} \cup
    UNION { { <<DuplicateGroup("H1", f)>> \o rest : rest \in GroupLists(n - Slots(f)) }
            : f \in {m \in MemberLists(n) : Slots(m) <= n} }

(***************************************************************************)
(* Retention policy: the match of process_duplicate_group                  *)
(***************************************************************************)
\* InsertSorted for a sort that is not stable: x goes in front of the
\* elements that compare equal.
InsertSorted_Unstable(sorted, x, sign) ==
    LET later == {i \in 1..Len(sorted) : sign * sorted[i].modified >= sign * x.modified}
        k == IF later = {} THEN Len(sorted) + 1
             ELSE CHOOSE i \in later : \A j \in later : i <= j
    IN SubSeq(sorted, 1, k - 1) \o <<x>> \o SubSeq(sorted, k, Len(sorted))

\* The place of x in a list already sorted by sign * modified: behind every
\* element that does not compare greater (slice::sort_by is stable).
InsertSorted(sorted, x, sign) ==
    LET later == {i \in 1..Len(sorted) : sign * sorted[i].modified > sign * x.modified}
        k == IF later = {} THEN Len(sorted) + 1
             ELSE CHOOSE i \in later : \A j \in later : i <= j
    IN SubSeq(sorted, 1, k - 1) \o <<x>> \o SubSeq(sorted, k, Len(sorted))

\* sorted_files.sort_by(..): ascending by modified for sign = 1
\* (a.modified.cmp(&b.modified)), descending for sign = -1.
RECURSIVE SortByModified(_, _)
SortByModified(files, sign) ==
    IF files = <<>> THEN <<>>
    ELSE InsertSorted(SortByModified(SubSeq(files, 1, Len(files) - 1), sign),
                      files[Len(files)], sign)

\* Whether sorted_files[0] indexes out of bounds (a panic).
PartitionPanics(files, strategy) ==
    strategy \in {"KeepNewest", "KeepOldest"} /\ files = <<>>

\* files_to_keep after the match on the strategy.
KeepSet(files, strategy) ==
    CASE strategy = "KeepNewest" ->
           <<SortByModified(files, -1)[1]>>
      [] strategy = "KeepOldest" ->
           <<SortByModified(files, 1)[1]>>
      [] strategy = "KeepInSystem" ->
           LET T(f) == is_system_directory(f.path) IN SelectSeq(files, T)
      [] strategy = "KeepInProgramFiles" ->
           LET T(f) == InProgramFiles(f.path) IN SelectSeq(files, T)

\* RemoveSet with sorted_files[2..] in place of sorted_files[1..].
RemoveSet_FromThird(files, strategy) ==
    CASE strategy = "KeepNewest" -> SubSeq(SortByModified(files, -1), 3, Len(files))
      [] strategy = "KeepOldest" -> SubSeq(SortByModified(files, 1), 3, Len(files))
      [] strategy = "KeepInSystem" ->
           LET T(f) == ~is_system_directory(f.path) IN SelectSeq(files, T)
      [] strategy = "KeepInProgramFiles" ->
           LET T(f) == ~InProgramFiles(f.path) IN SelectSeq(files, T)

\* files_to_remove after the match on the strategy.
RemoveSet(files, strategy) ==
    CASE strategy = "KeepNewest" ->
           Tail(SortByModified(files, -1))
      [] strategy = "KeepOldest" ->
           Tail(SortByModified(files, 1))
      [] strategy = "KeepInSystem" ->
           LET T(f) == ~is_system_directory(f.path) IN SelectSeq(files, T)
      [] strategy = "KeepInProgramFiles" ->
           LET T(f) == ~InProgramFiles(f.path) IN SelectSeq(files, T)

(***************************************************************************)
(* Safe deleter and backup writer                                          *)
(***************************************************************************)
\* What the Remove-Item command safe_delete_file spawns comes to, decided
\* when the command looks the path up: it removes a path it found, also
\* when another command removes the same path before it is done.
RemoveItem(path, onDisk) ==
    IF path \in onDisk THEN "found" ELSE "missing"

\* The outcome of safe_delete_file(path): "guard" when the critical-file
\* check rejects, else the outcome of the Remove-Item command, which
\* succeeds on a path it found.
DeleteOutcome(path, command) ==
    IF is_critical_file(path) THEN "guard"
    ELSE IF command = "found" THEN "ok"
    ELSE "os_error"

\* Every member of every group, in the order create_cleanup_backup reads them.
RECURSIVE AllMembers(_)
AllMembers(groups) ==
    IF groups = <<>> THEN <<>>
    ELSE groups[1].files \o AllMembers(Tail(groups))

\* The paths tokio::fs::read can read: the files on disk, less the files
\* another process holds locked when the directory is in that state.
LockedPaths == {PathA}

ReadablePaths(onDisk, env) ==
    IF env = "read_fails" THEN onDisk \ LockedPaths ELSE onDisk

\* The names zip.start_file refuses when the writer is in that state.
RejectedPaths == {PathDll}

\* Whether create_cleanup_backup writes an entry for the member: the read
\* gave its content (`if let Ok(content)`) and start_file took its name
\* (`if let Ok(mut file_in_zip)`); a member that fails either is skipped
\* without a word, and what io::copy returns is dropped.
EntryWritten(path, onDisk, env) ==
    /\ path \in ReadablePaths(onDisk, env)
    /\ ~(env = "start_fails" /\ path \in RejectedPaths)

(***************************************************************************)
(* The disk scan_duplicates walks                                          *)
(***************************************************************************)
EmptyMap == [x \in {} |-> <<>>]

\* struct ScanResult as scan_duplicates initialises it (scan_duration_ms,
\* a wall-clock reading, is left out).
EmptyScanResult(dirs) ==
    [ total_files |-> 0, total_size |-> 0, duplicate_groups |-> <<>>,
      scanned_directories |-> dirs, errors |-> <<>> ]

\* The state of a FileManager on which scan_duplicates is not running.
NoScan ==
    /\ directories = <<>>
    /\ fsize = <<>>
    /\ fhash = <<>>
    /\ s_pc = "idle"
    /\ di = 1
    /\ walk = <<>>
    /\ file_count = 0
    /\ total_files = 0
    /\ all_files = <<>>
    /\ size_groups = EmptyMap
    /\ bucket = <<>>
    /\ hash_groups = EmptyMap
    /\ s_result = EmptyScanResult(<<>>)
    /\ scan_results = EmptyMap
    /\ hashed = <<>>

\* A process in which no scan has returned, no callback is supplied and the
\* backup directory is empty.
NoSession ==
    /\ clock = 0
    /\ returned = <<>>
    /\ progress_callback = FALSE
    /\ progress = <<>>
    /\ backup_dir = EmptyMap
    /\ backups_made = <<>>
    /\ cleanup_calls = 0

\* The state of a FileManager on which cleanup_temp_files is not running.
NoTemp ==
    /\ t_pc = "idle"
    /\ temp_files = <<>>
    /\ ti = 1
    /\ t_result = EmptyCleanupResult
    /\ t_remove = "idle"

\* The state of a RegistryManager on which no call is running.
NoRegistry ==
    /\ r_pc = "idle"
    /\ key_path = <<>>
    /\ force = FALSE
    /\ r_calls = 0
    /\ operations_log = <<>>
    /\ commands = <<>>
    /\ r_return = "none"

\* The state of a BloatwareManager on which no call is running.
NoBloatware ==
    /\ bloatware_database = EmptyMap
    /\ b_pc = "idle"
    /\ app_name = ""
    /\ b_calls = 0
    /\ b_result = <<>>
    /\ mi = 1
    /\ attempts = <<>>
    /\ cleaned = <<>>
    /\ removal_log = <<>>
    /\ b_return = "none"

(***************************************************************************)
(* cleanup_duplicates                                                      *)
(***************************************************************************)
AllPaths == {r.path : r \in CandidateRecords}

\* The lists cleanup_temp_files is called with: the caller (the
\* cleanup_temp_files command) passes any list; a file may be listed twice.
TempFileLists ==
    { << FileInfo(PathA, 1000, 1, "", FALSE), FileInfo(PathSys, 1000, 3, "", FALSE),
         FileInfo(PathA, 1000, 1, "", FALSE) >> }

InitCleanup ==
    /\ duplicate_groups \in GroupLists(MaxRecords)
    /\ keep_strategy \in KeepStrategy
    /\ create_backup \in BOOLEAN
    /\ backupEnv \in IF create_backup
                     THEN {"ok", "create_fails", "finish_fails", "read_fails",
                           "start_fails"}
                     ELSE {"ok"}
    /\ disk = AllPaths
    /\ c_pc = "start"
    /\ c_result = EmptyCleanupResult
    /\ bi = 1
    /\ gi = 1
    /\ files_to_keep = <<>>
    /\ files_to_remove = <<>>
    /\ ri = 1
    /\ removed_count = 0
    /\ freed_space = 0
    /\ archive = NoArchive
    /\ deleteLog = <<>>
    /\ c_remove = "idle"
    /\ NoScan
    /\ NoSession
    /\ t_pc = "idle"
    /\ temp_files \in TempFileLists
    /\ ti = 1
    /\ t_result = EmptyCleanupResult
    /\ t_remove = "idle"
    /\ NoRegistry
    /\ NoBloatware

\* tokio::fs::File::create(path): the file is created, or truncated when it
\* exists, and holds what is written to it.
WriteFile(dir, name, content) ==
    [n \in DOMAIN dir \cup {name} |-> IF n = name THEN content ELSE dir[n]]

\* BackupFailed without its `return Ok(result)`: the error is recorded and
\* the loop over the groups starts all the same.
BackupFailed_NoReturn ==
    /\ c_result' = [c_result EXCEPT !.errors = Append(@, "Failed to create backup")]
    /\ c_pc' = "group"

\* The Err arm of the match on create_cleanup_backup: the error is pushed and
\* cleanup_duplicates returns Ok(result).
BackupFailed ==
    /\ c_result' = [c_result EXCEPT !.errors = Append(@, "Failed to create backup")]
    /\ c_pc' = "done"

\* if create_backup: create_cleanup_backup up to File::create(..).await?,
\* the archive being named after the clock reading of the call (the clock
\* stands still while the call runs).
CreateBackupFile ==
    /\ c_pc = "start"
    /\ create_backup
    /\ IF backupEnv = "create_fails"
       THEN /\ BackupFailed
            /\ UNCHANGED << archive, backup_dir >>
       ELSE /\ archive' = [created |-> TRUE, finished |-> FALSE, entries |-> <<>>]
            /\ backup_dir' = WriteFile(backup_dir, BackupFile(clock), archive')
            /\ c_pc' = "backup"
            /\ UNCHANGED c_result
    /\ bi' = 1
    /\ UNCHANGED << duplicate_groups, keep_strategy, create_backup, backupEnv,
                    disk, gi, files_to_keep, files_to_remove, ri,
                    removed_count, freed_space, deleteLog, c_remove >>
    /\ UNCHANGED << clock, returned, progress_callback, progress, backups_made,
                    cleanup_calls >>
    /\ UNCHANGED << svars, rvars, bvars, tvars >>

\* One turn of the two loops of create_cleanup_backup: the member is read
\* and, when it could be read and its entry started, written to the archive.
BackupMember ==
    /\ c_pc = "backup"
    /\ bi <= Len(AllMembers(duplicate_groups))
    /\ LET file == AllMembers(duplicate_groups)[bi]
       IN IF EntryWritten(file.path, disk, backupEnv)
          THEN /\ archive' = [archive EXCEPT !.entries = Append(@, file.path)]
               /\ backup_dir' = WriteFile(backup_dir, BackupFile(clock), archive')
          ELSE UNCHANGED << archive, backup_dir >>
    /\ bi' = bi + 1
    /\ UNCHANGED << duplicate_groups, keep_strategy, create_backup, backupEnv,
                    disk, c_pc, c_result, gi, files_to_keep, files_to_remove, ri,
                    removed_count, freed_space, deleteLog, c_remove >>
    /\ UNCHANGED << clock, returned, progress_callback, progress, backups_made,
                    cleanup_calls >>
    /\ UNCHANGED << svars, rvars, bvars, tvars >>

\* zip.finish()? and the match of cleanup_duplicates on what
\* create_cleanup_backup returned.
FinishBackup ==
    /\ c_pc = "backup"
    /\ bi > Len(AllMembers(duplicate_groups))
    /\ IF backupEnv = "finish_fails"
       THEN /\ BackupFailed
            /\ UNCHANGED << archive, backup_dir, backups_made >>
       ELSE /\ archive' = [archive EXCEPT !.finished = TRUE]
            /\ backup_dir' = WriteFile(backup_dir, BackupFile(clock), archive')
            /\ backups_made' = Append(backups_made, [path |-> BackupFile(clock),
                                                     archive |-> archive'])
            /\ c_result' = [c_result EXCEPT !.backup_created = TRUE,
                                            !.backup_path = BackupFile(clock)]
            /\ c_pc' = "group"
    /\ UNCHANGED << duplicate_groups, keep_strategy, create_backup, backupEnv,
                    disk, bi, gi, files_to_keep, files_to_remove, ri,
                    removed_count, freed_space, deleteLog, c_remove >>
    /\ UNCHANGED << clock, returned, progress_callback, progress, cleanup_calls >>
    /\ UNCHANGED << svars, rvars, bvars, tvars >>

\* create_backup is false: straight to the loop over the groups.
SkipBackup ==
    /\ c_pc = "start"
    /\ ~create_backup
    /\ c_pc' = "group"
    /\ UNCHANGED << duplicate_groups, keep_strategy, create_backup, backupEnv, bi,
                    disk, c_result, gi, files_to_keep, files_to_remove, ri,
                    removed_count, freed_space, archive, deleteLog, c_remove >>
    /\ UNCHANGED << svars, xvars, rvars, bvars, tvars >>

\* process_duplicate_group, up to the end of the match: the partition.
PartitionGroup ==
    /\ c_pc = "group"
    /\ gi <= Len(duplicate_groups)
    /\ LET files == duplicate_groups[gi].files IN
       IF PartitionPanics(files, keep_strategy)
       THEN /\ c_pc' = "panicked"
            /\ UNCHANGED << files_to_keep, files_to_remove >>
       ELSE /\ files_to_keep' = KeepSet(files, keep_strategy)
            /\ files_to_remove' = RemoveSet(files, keep_strategy)
            /\ c_pc' = "delete"
    /\ ri' = 1
    /\ removed_count' = 0
    /\ freed_space' = 0
    /\ UNCHANGED << duplicate_groups, keep_strategy, create_backup, backupEnv, bi,
                    disk, c_result, gi, archive, deleteLog, c_remove >>
    /\ UNCHANGED << svars, xvars, rvars, bvars, tvars >>

\* DeleteFile with `?` on safe_delete_file: the first failure leaves the
\* loop and the group.
DeleteFile_AbortOnError ==
    /\ c_pc = "delete"
    /\ ri <= Len(files_to_remove)
    /\ is_critical_file(files_to_remove[ri].path) \/ c_remove /= "idle"
    /\ c_remove' = "idle"
    /\ LET file == files_to_remove[ri]
           outcome == DeleteOutcome(file.path, c_remove)
       IN /\ deleteLog' = Append(deleteLog, [file |-> file, outcome |-> outcome,
                                           group |-> gi])
          /\ IF outcome = "ok"
             THEN /\ disk' = disk \ {file.path}
                  /\ removed_count' = removed_count + 1
                  /\ freed_space' = freed_space + file.size
                  /\ ri' = ri + 1
             ELSE /\ ri' = Len(files_to_remove) + 1
                  /\ UNCHANGED << disk, removed_count, freed_space >>
    /\ UNCHANGED << duplicate_groups, keep_strategy, create_backup, backupEnv, bi,
                    c_pc, c_result, gi, files_to_keep, files_to_remove, archive >>
    /\ UNCHANGED << svars, xvars, rvars, bvars, tvars >>

\* DeleteFile that counts the file and accrues its size whatever
\* safe_delete_file returned.
DeleteFile_CountsFailures ==
    /\ c_pc = "delete"
    /\ ri <= Len(files_to_remove)
    /\ is_critical_file(files_to_remove[ri].path) \/ c_remove /= "idle"
    /\ c_remove' = "idle"
    /\ LET file == files_to_remove[ri]
           outcome == DeleteOutcome(file.path, c_remove)
       IN /\ deleteLog' = Append(deleteLog, [file |-> file, outcome |-> outcome,
                                           group |-> gi])
          /\ removed_count' = removed_count + 1
          /\ freed_space' = freed_space + file.size
          /\ IF outcome = "ok"
             THEN disk' = disk \ {file.path}
             ELSE UNCHANGED disk
    /\ ri' = ri + 1
    /\ UNCHANGED << duplicate_groups, keep_strategy, create_backup, backupEnv, bi,
                    c_pc, c_result, gi, files_to_keep, files_to_remove, archive >>
    /\ UNCHANGED << svars, xvars, rvars, bvars, tvars >>

\* safe_delete_file on a path the critical-file check lets through, up to
\* the await of the command's output: the Remove-Item command is running.
StartDelete ==
    /\ c_pc = "delete"
    /\ ri <= Len(files_to_remove)
    /\ c_remove = "idle"
    /\ ~is_critical_file(files_to_remove[ri].path)
    /\ c_remove' = RemoveItem(files_to_remove[ri].path, disk)
    /\ UNCHANGED << duplicate_groups, keep_strategy, create_backup, backupEnv, disk,
                    c_pc, c_result, bi, gi, files_to_keep, files_to_remove, ri,
                    removed_count, freed_space, archive, deleteLog >>
    /\ UNCHANGED << svars, xvars, rvars, bvars, tvars >>

\* The rest of one turn of `for file in files_to_remove`: safe_delete_file
\* returns, with the guard's error or with the command's output, and the
\* match on its result.
DeleteFile ==
    /\ c_pc = "delete"
    /\ ri <= Len(files_to_remove)
    /\ is_critical_file(files_to_remove[ri].path) \/ c_remove /= "idle"
    /\ c_remove' = "idle"
    /\ LET file == files_to_remove[ri]
           outcome == DeleteOutcome(file.path, c_remove)
       IN /\ deleteLog' = Append(deleteLog, [file |-> file, outcome |-> outcome,
                                           group |-> gi])
          /\ IF outcome = "ok"
             THEN /\ disk' = disk \ {file.path}
                  /\ removed_count' = removed_count + 1
                  /\ freed_space' = freed_space + file.size
             ELSE UNCHANGED << disk, removed_count, freed_space >>
    /\ ri' = ri + 1
    /\ UNCHANGED << duplicate_groups, keep_strategy, create_backup, backupEnv, bi,
                    c_pc, c_result, gi, files_to_keep, files_to_remove, archive >>
    /\ UNCHANGED << svars, xvars, rvars, bvars, tvars >>

\* process_duplicate_group returns Ok((removed_count, freed_space)) and
\* cleanup_duplicates adds both to the result.
EndGroup ==
    /\ c_pc = "delete"
    /\ ri > Len(files_to_remove)
    /\ c_result' = [c_result EXCEPT !.files_removed = @ + removed_count,
                                    !.space_freed = @ + freed_space]
    /\ gi' = gi + 1
    /\ c_pc' = "group"
    /\ UNCHANGED << duplicate_groups, keep_strategy, create_backup, backupEnv, bi,
                    disk, files_to_keep, files_to_remove, ri, removed_count,
                    freed_space, archive, deleteLog, c_remove >>
    /\ UNCHANGED << svars, xvars, rvars, bvars, tvars >>

\* The loop over the groups is over: Ok(result).
FinishCleanup ==
    /\ c_pc = "group"
    /\ gi > Len(duplicate_groups)
    /\ c_pc' = "done"
    /\ UNCHANGED << duplicate_groups, keep_strategy, create_backup, backupEnv, bi,
                    disk, c_result, gi, files_to_keep, files_to_remove, ri,
                    removed_count, freed_space, archive, deleteLog, c_remove >>
    /\ UNCHANGED << svars, xvars, rvars, bvars, tvars >>

\* cleanup_temp_files is called, while cleanup_duplicates may be running
\* (the commands share the FileManager and take no lock).
CallCleanupTemp ==
    /\ t_pc = "idle"
    /\ t_pc' = "delete"
    /\ ti' = 1
    /\ t_result' = EmptyCleanupResult
    /\ t_remove' = "idle"
    /\ UNCHANGED temp_files
    /\ UNCHANGED << cvars, svars, xvars, rvars, bvars >>

\* safe_delete_file of cleanup_temp_files on a path the critical-file check
\* lets through, up to the await of the command's output.
StartTempDelete ==
    /\ t_pc = "delete"
    /\ ti <= Len(temp_files)
    /\ t_remove = "idle"
    /\ ~is_critical_file(temp_files[ti].path)
    /\ t_remove' = RemoveItem(temp_files[ti].path, disk)
    /\ UNCHANGED << t_pc, temp_files, ti, t_result >>
    /\ UNCHANGED << cvars, svars, xvars, rvars, bvars >>

\* The rest of one turn of `for file in files` of cleanup_temp_files:
\* safe_delete_file returns and the match on its result.
TempDelete ==
    /\ t_pc = "delete"
    /\ ti <= Len(temp_files)
    /\ is_critical_file(temp_files[ti].path) \/ t_remove /= "idle"
    /\ t_remove' = "idle"
    /\ LET file == temp_files[ti]
           outcome == DeleteOutcome(file.path, t_remove)
       IN IF outcome = "ok"
          THEN /\ disk' = disk \ {file.path}
               /\ t_result' = [t_result EXCEPT !.files_removed = @ + 1,
                                               !.space_freed = @ + file.size]
          ELSE /\ t_result' = [t_result EXCEPT !.errors =
                                  Append(@, <<"Failed to delete", file.path>>)]
               /\ UNCHANGED disk
    /\ ti' = ti + 1
    /\ UNCHANGED << t_pc, temp_files >>
    /\ UNCHANGED << duplicate_groups, keep_strategy, create_backup, backupEnv,
                    c_pc, c_result, bi, gi, files_to_keep, files_to_remove, ri,
                    removed_count, freed_space, archive, deleteLog, c_remove >>
    /\ UNCHANGED << svars, xvars, rvars, bvars >>

\* The loop of cleanup_temp_files is over: Ok(result).
FinishTemp ==
    /\ t_pc = "delete"
    /\ ti > Len(temp_files)
    /\ t_pc' = "done"
    /\ UNCHANGED << temp_files, ti, t_result, t_remove >>
    /\ UNCHANGED << cvars, svars, xvars, rvars, bvars >>

NextCleanup ==
    \/ CreateBackupFile
    \/ BackupMember
    \/ FinishBackup
    \/ SkipBackup
    \/ PartitionGroup
    \/ StartDelete
    \/ DeleteFile
    \/ EndGroup
    \/ FinishCleanup
    \/ CallCleanupTemp
    \/ StartTempDelete
    \/ TempDelete
    \/ FinishTemp

\* One cleanup_duplicates call and one cleanup_temp_files call on a
\* FileManager that runs no scan.
SpecCleanup == InitCleanup /\ [][NextCleanup]_vars


(***************************************************************************)
(* The files on the scanned disk.  Files 1..NumFiles are ordinary text     *)
(* files whose size and content hash the initial state draws; the files    *)
(* behind them are fixed and cover the walker's skip rules.                *)
(***************************************************************************)
UsersDocs == <<"C:", "Users", "docs">>
CDrive == <<"C:">>
WindowsApps == <<"C:", "Program Files", "WindowsApps">>
MissingDir == <<"C:", "missing">>
\* A root that exists and is a regular file (ordinary file 1).
FileRoot == <<"C:", "Users", "f1.txt">>

DigitChar == <<"1", "2", "3", "4", "5", "6", "7", "8", "9">>

\* max_file_size: 100 * 1024 * 1024
max_file_size == 104857600

SpecialFiles ==
    << [ path |-> [dir |-> Users, name |-> <<"l", "i", "b", ".", "d", "l", "l">>],
         size |-> 1000, hash |-> "H1" ],
       [ path |-> [dir |-> System32, name |-> <<"c", ".", "t", "x", "t">>],
         size |-> 1000, hash |-> "H1" ],
       [ path |-> [dir |-> Users, name |-> <<".", "h", "i", "d">>],
         size |-> 1000, hash |-> "H1" ],
       [ path |-> [dir |-> Users, name |-> <<"b", "i", "g", ".", "t", "x", "t">>],
         size |-> max_file_size + 1, hash |-> "H1" ],
       [ path |-> [dir |-> WindowsApps, name |-> <<"a", "p", "p", ".", "t", "x", "t">>],
         size |-> 1000, hash |-> "H1" ] >>

FileIds == 1..(NumFiles + Len(SpecialFiles))

\* Where file i lies: the ordinary files alternate between C:\Users and
\* C:\Users\docs.
PathOfFile(i) ==
    IF i <= NumFiles
    THEN [ dir |-> IF i % 2 = 1 THEN Users ELSE UsersDocs,
           name |-> <<"f", DigitChar[i], ".", "t", "x", "t">> ]
    ELSE SpecialFiles[i - NumFiles].path

FileAt(path) == CHOOSE i \in FileIds : PathOfFile(i) = path

\* The paths of the files the walked tree holds.
TreePaths == {PathOfFile(i) : i \in FileIds}

\* The sizes and the hash results the initial state draws for an ordinary
\* file: a zero-byte file is never read, so its hash is fixed.
FileKinds ==
    { <<0, "H1">> } \cup ({1000, 2000} \X {"H1", "H2", "HashFails"})

\* The root lists scan_duplicates is called with.
RootLists ==
    { <<Users>>, <<Users, UsersDocs>>, <<MissingDir, FileRoot, CDrive>> }

\* self.excluded_paths, set by FileManager::new
excluded_paths ==
    { <<"C:", "Windows", "System32">>, <<"C:", "Windows", "SysWOW64">>,
      <<"C:", "Program Files", "WindowsApps">>, <<"C:", "$Recycle.Bin">>,
      <<"C:", "System Volume Information">> }

(***************************************************************************)
(* Tree walker: collect_files                                              *)
(***************************************************************************)
\* directory.exists() && directory.is_dir(): a directory that holds a file.
DirExists(directory) ==
    \E i \in FileIds : DirStartsWith(PathOfFile(i).dir, directory)

\* Collected without the skip of system and critical files.
Collected_NoSkip(i, sizes) ==
    ~(sizes[i] > max_file_size)

\* Whether collect_files pushes the file it visits: not too large, neither
\* a system file nor a critical file.
Collected(i, sizes) ==
    /\ ~(sizes[i] > max_file_size)
    /\ ~(is_system_file(PathOfFile(i)) \/ is_critical_file(PathOfFile(i)))

\* The components of the path of file i: its directories, then its name.
Components(i) == PathOfFile(i).dir \o << PathOfFile(i).name >>

\* The set of numbers S in ascending order.
Ascending(S) ==
    [ k \in 1..Cardinality(S) |->
        CHOOSE i \in S : Cardinality({j \in S : j < i}) = k - 1 ]

\* File number NumFiles + k: the k-th of SpecialFiles.
Special(k) == NumFiles + k

\* The order in which the file system lists the entries of a directory is
\* the file system's own (WalkDir is given no sort_by).  A listing order is
\* a sequence of all the files: of two entries of one directory, the one
\* listed first is the one that is, or holds, the earlier file of the
\* sequence.  ByCreation lists in the order of the file numbers; ByName in
\* the order of the names, case-insensitively, as NTFS does; AsHashed in an
\* order a hashed directory index gives (lib.dll, f1.txt, big.txt, .hid,
\* f3.txt, docs in C:\Users).
ByCreation == Ascending(FileIds)

ByName ==
    << Special(5), Special(3), Special(4) >>
       \o Ascending({i \in 1..NumFiles : i % 2 = 0})
       \o Ascending({i \in 1..NumFiles : i % 2 = 1})
       \o << Special(1), Special(2) >>

AsHashed ==
    << Special(1), 1, Special(4), Special(3) >>
       \o Ascending({i \in 2..NumFiles : i % 2 = 1})
       \o Ascending({i \in 1..NumFiles : i % 2 = 0})
       \o << Special(2), Special(5) >>

ListingOrders == { ByCreation, ByName, AsHashed }

\* A depth-first walk of the directory of depth d that holds `files`, given
\* in the listing order: the entry of the first file is gone through, all of
\* it when it is a directory, before the entries listed after it.
RECURSIVE DepthFirst(_, _)
DepthFirst(files, d) ==
    IF files = <<>> THEN <<>>
    ELSE LET first == Components(files[1])
             InEntry(i) == /\ Len(Components(i)) > d
                           /\ Len(first) > d
                           /\ Components(i)[d + 1] = first[d + 1]
             Other(i) == ~InEntry(i)
         IN IF Len(first) <= d + 1
            THEN << files[1] >> \o DepthFirst(Tail(files), d)
            ELSE DepthFirst(SelectSeq(files, InEntry), d + 1)
                    \o DepthFirst(SelectSeq(files, Other), d)

\* The regular files WalkDir::new(directory) yields, in order: depth first,
\* each directory in the listing order (every file lies within max_depth).
\* A walk started on a regular file yields that file; a walk started on a
\* path that does not exist yields nothing.
WalkOrder(directory, listing, onDisk) ==
    LET Found(i) == /\ StartsWith(PathOfFile(i), directory)
                    /\ PathOfFile(i) \in onDisk
    IN DepthFirst(SelectSeq(listing, Found), Len(directory))

\* RootWalked without its first test: WalkDir is started on any root.
RootWalked_NoDirCheck(directory) ==
    ~(\E excluded \in excluded_paths : DirStartsWith(directory, excluded))

\* Whether collect_files(directory, ..) gets past its two early returns: the
\* directory exists and is a directory, and no excluded path is a prefix of it.
RootWalked(directory) ==
    /\ DirExists(directory)
    /\ ~(\E excluded \in excluded_paths : DirStartsWith(directory, excluded))

\* struct ScanProgress as collect_files fills it (percentage, an f32 derived
\* from the two counts, is left out).
ScanProgress(directory, count, total, path) ==
    [ current_directory |-> directory, files_scanned |-> count,
      total_files |-> total, current_file |-> path ]

(***************************************************************************)
(* Duplicate grouper                                                       *)
(***************************************************************************)
SumSizes(files) ==
    LET RECURSIVE Sum(_)
        Sum(i) == IF i = 0 THEN 0 ELSE files[i].size + Sum(i - 1)
    IN Sum(Len(files))

\* .filter(|file| file.size > 0)
NonEmpty(file) == file.size > 0

\* The fold into size_groups: every non-empty file, bucketed by size.
SizeBuckets(files) ==
    LET kept == SelectSeq(files, NonEmpty)
    IN [ sz \in {kept[i].size : i \in 1..Len(kept)} |->
            LET Same(f) == f.size = sz IN SelectSeq(kept, Same) ]

\* if files.len() > 1: the buckets whose files are hashed.
IsCandidateBucket(files) == Len(files) > 1

\* PushToHashGroup with insert(hash, vec![file]) in place of the entry's
\* push: a later file of the same hash replaces the earlier ones.
PushToHashGroup_Insert(groups, hash, file) ==
    [h \in DOMAIN groups \cup {hash} |-> IF h = hash THEN <<file>> ELSE groups[h]]

\* PushToHashGroup that starts the entry anew when it holds files of another
\* size: what the entry ends up with depends on the order of the buckets.
PushToHashGroup_ReplaceOtherSize(groups, hash, file) ==
    IF hash \in DOMAIN groups /\ groups[hash][1].size = file.size
    THEN [groups EXCEPT ![hash] = Append(@, file)]
    ELSE [h \in DOMAIN groups \cup {hash} |->
            IF h = hash THEN <<file>> ELSE groups[h]]

\* hash_groups.entry(hash).or_insert_with(Vec::new).push(file_with_hash)
PushToHashGroup(groups, hash, file) ==
    IF hash \in DOMAIN groups
    THEN [groups EXCEPT ![hash] = Append(@, file)]
    ELSE [h \in DOMAIN groups \cup {hash} |->
            IF h = hash THEN <<file>> ELSE groups[h]]

\* IsDuplicateBucket with `> 0`: a hash group of one file is emitted too.
IsDuplicateBucket_NonEmpty(files) == Len(files) > 0

\* if files.len() > 1: the hash groups that become a DuplicateGroup.
IsDuplicateBucket(files) == Len(files) > 1

Without(map, key) == [k \in DOMAIN map \ {key} |-> map[k]]

(***************************************************************************)
(* scan_duplicates                                                         *)
(***************************************************************************)
\* The state of a FileManager on which cleanup_duplicates is not running.
NoCleanup ==
    /\ duplicate_groups = <<>>
    /\ keep_strategy = "KeepNewest"
    /\ create_backup = FALSE
    /\ backupEnv = "ok"
    /\ c_pc = "idle"
    /\ c_result = EmptyCleanupResult
    /\ bi = 1
    /\ gi = 1
    /\ files_to_keep = <<>>
    /\ files_to_remove = <<>>
    /\ ri = 1
    /\ removed_count = 0
    /\ freed_space = 0
    /\ archive = NoArchive
    /\ deleteLog = <<>>
    /\ c_remove = "idle"

InitScan ==
    /\ directories \in RootLists
    /\ \E kinds \in [1..NumFiles -> FileKinds] :
          /\ fsize = [i \in FileIds |-> IF i <= NumFiles THEN kinds[i][1]
                                        ELSE SpecialFiles[i - NumFiles].size]
          /\ fhash = [i \in FileIds |-> IF i <= NumFiles THEN kinds[i][2]
                                        ELSE SpecialFiles[i - NumFiles].hash]
    /\ disk = TreePaths
    /\ s_pc = "collect"
    /\ di = 1
    /\ walk = <<>>
    /\ file_count = 0
    /\ total_files = 0
    /\ all_files = <<>>
    /\ size_groups = EmptyMap
    /\ bucket = <<>>
    /\ hash_groups = EmptyMap
    /\ s_result = EmptyScanResult(directories)
    /\ scan_results = EmptyMap
    /\ hashed = <<>>
    /\ NoCleanup
    /\ NoSession
    /\ NoTemp
    /\ NoRegistry
    /\ NoBloatware

\* `for directory in &directories` calls collect_files: the two early
\* returns, the first walk that counts total_files, and the WalkDir iterator
\* of the loop.
StartRoot ==
    /\ s_pc = "collect"
    /\ di <= Len(directories)
    /\ IF RootWalked(directories[di])
       THEN /\ \E listing \in ListingOrders :
                  walk' = WalkOrder(directories[di], listing, disk)
            /\ total_files' = Len(walk')
            /\ file_count' = 0
            /\ s_pc' = "walk"
            /\ UNCHANGED di
       ELSE /\ di' = di + 1
            /\ UNCHANGED << s_pc, walk, file_count, total_files >>
    /\ UNCHANGED << directories, fsize, fhash, all_files, size_groups, bucket,
                    hash_groups, s_result, scan_results, hashed >>
    /\ UNCHANGED << cvars, xvars, rvars, bvars, tvars >>

\* One turn of the WalkDir loop up to the metadata call: the entry the
\* iterator yields, the count and the callback.  A file that was deleted
\* since the walk began is yielded when its directory was read before the
\* deletion and is not when it was read after.
ReportFile ==
    /\ s_pc = "walk"
    /\ walk /= <<>>
    /\ LET i == Head(walk)
           path == PathOfFile(i)
       IN \E yielded \in {TRUE, (path \in disk)} :
             IF yielded
             THEN /\ file_count' = file_count + 1
                  /\ progress' =
                        IF progress_callback
                        THEN Append(progress,
                                    ScanProgress(directories[di], file_count',
                                                 total_files, path))
                        ELSE progress
                  /\ s_pc' = "metadata"
                  /\ UNCHANGED walk
             ELSE /\ walk' = Tail(walk)
                  /\ UNCHANGED << file_count, progress, s_pc >>
    /\ UNCHANGED << directories, fsize, fhash, di, total_files, all_files, size_groups,
                    bucket, hash_groups, s_result, scan_results, hashed >>
    /\ UNCHANGED << clock, returned, progress_callback, backup_dir, backups_made,
                    cleanup_calls >>
    /\ UNCHANGED << cvars, rvars, bvars, tvars >>

\* The rest of the turn: tokio::fs::metadata(path).await has its result
\* (Err for a file that is no longer there), then the skips and the push.
CollectFile ==
    /\ s_pc = "metadata"
    /\ LET i == Head(walk)
           path == PathOfFile(i)
       IN all_files' =
             IF path \in disk /\ Collected(i, fsize)
             THEN Append(all_files,
                         FileInfo(path, fsize[i], i, "", is_critical_file(path)))
             ELSE all_files
    /\ walk' = Tail(walk)
    /\ s_pc' = "walk"
    /\ UNCHANGED << directories, fsize, fhash, di, file_count, total_files, size_groups,
                    bucket, hash_groups, s_result, scan_results, hashed >>
    /\ UNCHANGED << xvars, cvars, rvars, bvars, tvars >>

\* The WalkDir loop is over: collect_files returns Ok(()).
EndRoot ==
    /\ s_pc = "walk"
    /\ walk = <<>>
    /\ di' = di + 1
    /\ s_pc' = "collect"
    /\ UNCHANGED << directories, fsize, fhash, walk, file_count, total_files,
                    all_files, size_groups, bucket, hash_groups, s_result,
                    scan_results, hashed >>
    /\ UNCHANGED << cvars, xvars, rvars, bvars, tvars >>

\* The totals and the fold into size_groups.
GroupBySize ==
    /\ s_pc = "collect"
    /\ di > Len(directories)
    /\ s_result' = [s_result EXCEPT !.total_files = Len(all_files),
                                    !.total_size = SumSizes(all_files)]
    /\ size_groups' = SizeBuckets(all_files)
    /\ s_pc' = "hash"
    /\ UNCHANGED << directories, fsize, fhash, di, walk, file_count, total_files,
                    all_files, bucket, hash_groups, scan_results, hashed >>
    /\ UNCHANGED << cvars, xvars, rvars, bvars, tvars >>

\* One turn of `for (size, files) in size_groups`, the map's iteration order
\* being any order: the bucket is hashed when it holds more than one file.
TakeBucket ==
    /\ s_pc = "hash"
    /\ bucket = <<>>
    /\ \E size \in DOMAIN size_groups :
          /\ bucket' = IF IsCandidateBucket(size_groups[size])
                       THEN size_groups[size]
                       ELSE <<>>
          /\ size_groups' = Without(size_groups, size)
    /\ UNCHANGED << directories, fsize, fhash, s_pc, di, walk, file_count,
                    total_files, all_files, hash_groups, s_result, scan_results,
                    hashed >>
    /\ UNCHANGED << cvars, xvars, rvars, bvars, tvars >>

\* calculate_file_hash(path): the digest of the file's content, or an error
\* when the file cannot be opened or read.
HashResult(path, hashes, onDisk) ==
    IF path \in onDisk THEN hashes[FileAt(path)] ELSE "HashFails"

\* HashFile that leaves the bucket at the first hash failure.
HashFile_AbortOnError ==
    /\ s_pc = "hash"
    /\ bucket /= <<>>
    /\ LET file == Head(bucket)
           h == HashResult(file.path, fhash, disk)
       IN /\ hashed' = Append(hashed, file.path)
          /\ IF h = "HashFails"
             THEN /\ s_result' = [s_result EXCEPT !.errors =
                                     Append(@, <<"Failed to hash", file.path>>)]
                  /\ bucket' = <<>>
                  /\ UNCHANGED hash_groups
             ELSE /\ hash_groups' =
                        PushToHashGroup(hash_groups, h, [file EXCEPT !.hash = h])
                  /\ bucket' = Tail(bucket)
                  /\ UNCHANGED s_result
    /\ UNCHANGED << directories, fsize, fhash, s_pc, di, walk, file_count,
                    total_files, all_files, size_groups, scan_results >>
    /\ UNCHANGED << cvars, xvars, rvars, bvars, tvars >>

\* One turn of `for file in files`: the file is hashed and pushed to its hash
\* group, or its error is recorded.
HashFile ==
    /\ s_pc = "hash"
    /\ bucket /= <<>>
    /\ LET file == Head(bucket)
           h == HashResult(file.path, fhash, disk)
       IN /\ hashed' = Append(hashed, file.path)
          /\ IF h = "HashFails"
             THEN /\ s_result' = [s_result EXCEPT !.errors =
                                     Append(@, <<"Failed to hash", file.path>>)]
                  /\ UNCHANGED hash_groups
             ELSE /\ hash_groups' =
                        PushToHashGroup(hash_groups, h, [file EXCEPT !.hash = h])
                  /\ UNCHANGED s_result
    /\ bucket' = Tail(bucket)
    /\ UNCHANGED << directories, fsize, fhash, s_pc, di, walk, file_count,
                    total_files, all_files, size_groups, scan_results >>
    /\ UNCHANGED << cvars, xvars, rvars, bvars, tvars >>

\* One turn of `for (hash, files) in hash_groups`, in any order.
EmitGroup ==
    /\ s_pc = "hash"
    /\ DOMAIN size_groups = {}
    /\ bucket = <<>>
    /\ \E hash \in DOMAIN hash_groups :
          LET files == hash_groups[hash]
          IN /\ IF IsDuplicateBucket(files)
                THEN s_result' = [s_result EXCEPT !.duplicate_groups =
                                     Append(@, DuplicateGroup(hash, files))]
                ELSE UNCHANGED s_result
             /\ hash_groups' = Without(hash_groups, hash)
    /\ UNCHANGED << directories, fsize, fhash, s_pc, di, walk, file_count,
                    total_files, all_files, size_groups, bucket, scan_results,
                    hashed >>
    /\ UNCHANGED << cvars, xvars, rvars, bvars, tvars >>

\* scan_results.insert(scan_id, result.clone()); Ok(result)
StoreResult ==
    /\ s_pc = "hash"
    /\ DOMAIN size_groups = {}
    /\ bucket = <<>>
    /\ DOMAIN hash_groups = {}
    /\ scan_results' = [id \in DOMAIN scan_results \cup {ScanId(clock)} |->
                           IF id = ScanId(clock) THEN s_result ELSE scan_results[id]]
    /\ returned' = Append(returned, s_result)
    /\ s_pc' = "done"
    /\ UNCHANGED << directories, fsize, fhash, di, walk, file_count, total_files,
                    all_files, size_groups, bucket, hash_groups, s_result, hashed >>
    /\ UNCHANGED << clock, progress_callback, progress, backup_dir, backups_made,
                    cleanup_calls >>
    /\ UNCHANGED << cvars, rvars, bvars, tvars >>

NextScan ==
    \/ StartRoot
    \/ ReportFile
    \/ CollectFile
    \/ EndRoot
    \/ GroupBySize
    \/ TakeBucket
    \/ HashFile
    \/ EmitGroup
    \/ StoreResult

SpecScan == InitScan /\ [][NextScan]_vars

(***************************************************************************)
(* Sessions of one FileManager: scan_duplicates with a progress callback,  *)
(* called again on the same roots; and one scan followed by                *)
(* cleanup_duplicates, called and called again, on the groups the scan     *)
(* returned, with one cleanup_temp_files call running beside them.  The    *)
(* clock may advance between two calls.                                    *)
(***************************************************************************)
\* The number of calls of each kind a session makes.
MaxCalls == 2

\* The last clock reading of a session.
MaxClock == 1

\* The sizes and hash results a session draws for an ordinary file.
SessionKinds ==
    { <<1000, "H1">>, <<2000, "H1">>, <<2000, "H2">> }

\* The lists a session calls cleanup_temp_files with: files of the tree.
SessionTempLists ==
    { << FileInfo(PathOfFile(2), 1000, 2, "", FALSE) >> }

InitSession ==
    /\ directories \in RootLists
    /\ \E kinds \in [1..NumFiles -> SessionKinds] :
          /\ fsize = [i \in FileIds |-> IF i <= NumFiles THEN kinds[i][1]
                                        ELSE SpecialFiles[i - NumFiles].size]
          /\ fhash = [i \in FileIds |-> IF i <= NumFiles THEN kinds[i][2]
                                        ELSE SpecialFiles[i - NumFiles].hash]
    /\ disk = TreePaths
    /\ s_pc = "collect"
    /\ di = 1
    /\ walk = <<>>
    /\ file_count = 0
    /\ total_files = 0
    /\ all_files = <<>>
    /\ size_groups = EmptyMap
    /\ bucket = <<>>
    /\ hash_groups = EmptyMap
    /\ s_result = EmptyScanResult(directories)
    /\ scan_results = EmptyMap
    /\ hashed = <<>>
    /\ clock = 0
    /\ returned = <<>>
    /\ progress_callback = TRUE
    /\ progress = <<>>
    /\ backup_dir = EmptyMap
    /\ backups_made = <<>>
    /\ cleanup_calls = 0
    /\ NoCleanup
    /\ t_pc = "idle"
    /\ temp_files \in SessionTempLists
    /\ ti = 1
    /\ t_result = EmptyCleanupResult
    /\ t_remove = "idle"
    /\ NoRegistry
    /\ NoBloatware

\* The seconds that may pass before the next call is made.
Elapsed == {dt \in 0..1 : clock + dt <= MaxClock}

\* scan_duplicates is called again with the same roots and callback, the
\* tree being as it was.
ScanAgain ==
    /\ s_pc = "done"
    /\ c_pc = "idle"
    /\ Len(returned) < MaxCalls
    /\ s_pc' = "collect"
    /\ di' = 1
    /\ walk' = <<>>
    /\ file_count' = 0
    /\ total_files' = 0
    /\ all_files' = <<>>
    /\ size_groups' = EmptyMap
    /\ bucket' = <<>>
    /\ hash_groups' = EmptyMap
    /\ s_result' = EmptyScanResult(directories)
    /\ hashed' = <<>>
    /\ progress' = <<>>
    /\ \E dt \in Elapsed : clock' = clock + dt
    /\ UNCHANGED << directories, fsize, fhash, scan_results >>
    /\ UNCHANGED << returned, progress_callback, backup_dir, backups_made,
                    cleanup_calls >>
    /\ UNCHANGED << cvars, rvars, bvars, tvars >>

\* cleanup_duplicates is called with the groups the last scan returned.
StartCleanup ==
    /\ s_pc = "done"
    /\ c_pc = "idle"
    /\ duplicate_groups' = s_result.duplicate_groups
    /\ keep_strategy' \in KeepStrategy
    /\ create_backup' \in BOOLEAN
    /\ backupEnv' = "ok"
    /\ c_pc' = "start"
    /\ c_result' = EmptyCleanupResult
    /\ bi' = 1
    /\ gi' = 1
    /\ files_to_keep' = <<>>
    /\ files_to_remove' = <<>>
    /\ ri' = 1
    /\ removed_count' = 0
    /\ freed_space' = 0
    /\ archive' = NoArchive
    /\ deleteLog' = <<>>
    /\ c_remove' = "idle"
    /\ cleanup_calls' = cleanup_calls + 1
    /\ UNCHANGED << disk, clock, returned, progress_callback, progress,
                    backup_dir, backups_made >>
    /\ UNCHANGED << svars, rvars, bvars, tvars >>

\* cleanup_duplicates is called again with the same arguments.
CleanupAgain ==
    /\ c_pc = "done"
    /\ cleanup_calls < MaxCalls
    /\ c_pc' = "start"
    /\ c_result' = EmptyCleanupResult
    /\ bi' = 1
    /\ gi' = 1
    /\ files_to_keep' = <<>>
    /\ files_to_remove' = <<>>
    /\ ri' = 1
    /\ removed_count' = 0
    /\ freed_space' = 0
    /\ archive' = NoArchive
    /\ deleteLog' = <<>>
    /\ c_remove' = "idle"
    /\ cleanup_calls' = cleanup_calls + 1
    /\ \E dt \in Elapsed : clock' = clock + dt
    /\ UNCHANGED << duplicate_groups, keep_strategy, create_backup, backupEnv, disk >>
    /\ UNCHANGED << returned, progress_callback, progress, backup_dir,
                    backups_made >>
    /\ UNCHANGED << svars, rvars, bvars, tvars >>

\* A session of scans: scan_duplicates, called again and again.
NextRescan ==
    \/ StartRoot
    \/ ReportFile
    \/ CollectFile
    \/ EndRoot
    \/ GroupBySize
    \/ TakeBucket
    \/ HashFile
    \/ EmitGroup
    \/ StoreResult
    \/ ScanAgain

SpecRescan == InitSession /\ [][NextRescan]_vars

\* A session of one scan and the cleanups of what it returned.
NextPipeline ==
    \/ StartRoot
    \/ ReportFile
    \/ CollectFile
    \/ EndRoot
    \/ GroupBySize
    \/ TakeBucket
    \/ HashFile
    \/ EmitGroup
    \/ StoreResult
    \/ StartCleanup
    \/ CreateBackupFile
    \/ BackupMember
    \/ FinishBackup
    \/ SkipBackup
    \/ PartitionGroup
    \/ StartDelete
    \/ DeleteFile
    \/ EndGroup
    \/ FinishCleanup
    \/ CleanupAgain
    \/ CallCleanupTemp
    \/ StartTempDelete
    \/ TempDelete
    \/ FinishTemp

SpecPipeline == InitSession /\ [][NextPipeline]_vars

(***************************************************************************)
(* RegistryManager::delete_registry_key                                    *)
(*                                                                         *)
(* A key path is the sequence of its pieces, the separators among them, so *)
(* that str::contains is the search for a run of pieces.                   *)
(***************************************************************************)
\* get_dangerous_registry_patterns
dangerous_patterns ==
    { << "SYSTEM", "\\", "CurrentControlSet", "\\", "Control", "\\", "Session Manager" >>,
      << "SYSTEM", "\\", "CurrentControlSet", "\\", "Services" >>,
      << "SOFTWARE", "\\", "Microsoft", "\\", "Windows NT", "\\", "CurrentVersion" >>,
      << "SOFTWARE", "\\", "Microsoft", "\\", "Windows", "\\", "CurrentVersion", "\\", "Run" >> }

\* str::contains(pattern)
Contains(str, pattern) ==
    \E k \in 0..(Len(str) - Len(pattern)) :
        SubSeq(str, k + 1, k + Len(pattern)) = pattern

\* RegistryManager::is_dangerous_key
is_dangerous_key(path) ==
    \E pattern \in dangerous_patterns : Contains(path, pattern)

\* The key paths a caller passes: a vendor key, a service key, the RunOnce
\* key (which contains the pattern that ends in Run) and a service key
\* written in lower case.
RegistryKeys ==
    { << "HKLM", "\\", "SOFTWARE", "\\", "Vendor", "\\", "App" >>,
      << "HKLM", "\\", "SYSTEM", "\\", "CurrentControlSet", "\\", "Services", "\\", "Foo" >>,
      << "HKLM", "\\", "SOFTWARE", "\\", "Microsoft", "\\", "Windows", "\\",
         "CurrentVersion", "\\", "Run", "Once" >>,
      << "HKLM", "\\", "system", "\\", "currentcontrolset", "\\", "services", "\\", "Foo" >> }

\* What running a command through cmd /C comes to: it exits with success,
\* it exits with a failure status, or the process cannot be spawned.
CommandOutcomes == {"ok", "fails", "no_spawn"}

\* One entry of `commands`.
CommandRun(command, outcome) ==
    [ call |-> r_calls, command |-> command, key |-> key_path, force |-> force,
      outcome |-> outcome ]

\* struct RegistryOperation as delete_registry_key pushes it (timestamp, a
\* clock reading, and the fields it leaves None are left out).
RegistryOperation(path, success) ==
    [ operation_type |-> "DELETE_KEY", key_path |-> path, success |-> success ]

InitRegistry ==
    /\ NoRegistry
    /\ NoCleanup
    /\ disk = {}
    /\ NoScan
    /\ NoSession
    /\ NoTemp
    /\ NoBloatware

\* delete_registry_key(key_path, force) is called.
CallDeleteKey ==
    /\ r_pc \in {"idle", "done"}
    /\ r_calls < MaxCalls
    /\ key_path' \in RegistryKeys
    /\ force' \in BOOLEAN
    /\ r_calls' = r_calls + 1
    /\ r_return' = "none"
    /\ r_pc' = "guard"
    /\ UNCHANGED << operations_log, commands >>
    /\ UNCHANGED << cvars, svars, xvars, bvars, tvars >>

\* if !force && self.is_dangerous_key(key_path).await { return Err(..) }
GuardKey ==
    /\ r_pc = "guard"
    /\ IF ~force /\ is_dangerous_key(key_path)
       THEN /\ r_return' = "Err"
            /\ r_pc' = "done"
       ELSE /\ r_pc' = "backup"
            /\ UNCHANGED r_return
    /\ UNCHANGED << key_path, force, r_calls, operations_log, commands >>
    /\ UNCHANGED << cvars, svars, xvars, bvars, tvars >>

\* BackupKey whose failure is not propagated: the delete follows anyway.
BackupKey_ContinuesOnFailure ==
    /\ r_pc = "backup"
    /\ \E outcome \in CommandOutcomes :
          commands' = Append(commands, CommandRun("reg export", outcome))
    /\ r_pc' = "delete"
    /\ UNCHANGED << key_path, force, r_calls, operations_log, r_return >>
    /\ UNCHANGED << cvars, svars, xvars, bvars, tvars >>

\* let key_backup = self.backup_specific_key(key_path).await?;
BackupKey ==
    /\ r_pc = "backup"
    /\ \E outcome \in CommandOutcomes :
          /\ commands' = Append(commands, CommandRun("reg export", outcome))
          /\ IF outcome = "ok"
             THEN /\ r_pc' = "delete"
                  /\ UNCHANGED r_return
             ELSE /\ r_return' = "Err"
                  /\ r_pc' = "done"
    /\ UNCHANGED << key_path, force, r_calls, operations_log >>
    /\ UNCHANGED << cvars, svars, xvars, bvars, tvars >>

\* let output = Command::new("cmd").args(&["/C", &delete_command]).output().await?;
\* The call goes on to the write lock of operations_log unless the process
\* could not be spawned.
DeleteKey ==
    /\ r_pc = "delete"
    /\ \E outcome \in CommandOutcomes :
          /\ commands' = Append(commands, CommandRun("reg delete", outcome))
          /\ IF outcome = "no_spawn"
             THEN /\ r_return' = "Err"
                  /\ r_pc' = "done"
             ELSE /\ r_pc' = "log"
                  /\ UNCHANGED r_return
    /\ UNCHANGED << key_path, force, r_calls, operations_log >>
    /\ UNCHANGED << cvars, svars, xvars, bvars, tvars >>

\* let success = output.status.success(); of the reg delete this call ran.
output_success == commands[Len(commands)].outcome = "ok"

\* With the write lock of operations_log taken: the push of the operation,
\* then Err when the command failed and Ok(()) otherwise.
LogOperation ==
    /\ r_pc = "log"
    /\ operations_log' = Append(operations_log, RegistryOperation(key_path, output_success))
    /\ r_return' = IF output_success THEN "Ok" ELSE "Err"
    /\ r_pc' = "done"
    /\ UNCHANGED << key_path, force, r_calls, commands >>
    /\ UNCHANGED << cvars, svars, xvars, bvars, tvars >>

NextRegistry ==
    \/ CallDeleteKey
    \/ GuardKey
    \/ BackupKey
    \/ DeleteKey
    \/ LogOperation

SpecRegistry == InitRegistry /\ [][NextRegistry]_vars

(***************************************************************************)
(* BloatwareManager::uninstall_bloatware                                   *)
(***************************************************************************)
\* One entry of the database: the fields uninstall_bloatware reads.
BloatwareApp(name, removal_methods) ==
    [ name |-> name, removal_methods |-> removal_methods ]

\* windows_apps of add_more_bloatware_entries: the names it is keyed by.
windows_apps ==
    { "Microsoft Weather", "Microsoft News", "Microsoft Tips", "Xbox Game Bar",
      "Microsoft People", "Microsoft Photos", "Microsoft Movies & TV",
      "Microsoft Music", "Microsoft Mail", "Microsoft Calendar" }

\* oem_patterns of add_more_bloatware_entries, each brand as the key
\* format!("{} Support Assistant", brand) makes of it.
oem_patterns ==
    { "HP Support Assistant", "Dell Support Assistant", "Lenovo Support Assistant",
      "Acer Support Assistant", "ASUS Support Assistant" }

\* add_more_bloatware_entries: HashMap::insert replaces an entry of the same
\* key, so the later insert is the left operand of @@.
add_more_bloatware_entries(database) ==
    [ name \in oem_patterns |-> BloatwareApp(name, << "PowerShell", "WMI" >>) ]
       @@ [ name \in windows_apps |-> BloatwareApp(name, << "UWP", "PowerShell" >>) ]
       @@ database

\* The database initialize_database builds, keyed by name: its four
\* entries and those add_more_bloatware_entries inserts.
BloatwareDatabase ==
    add_more_bloatware_entries(
        [ name \in { "Microsoft Solitaire Collection", "Microsoft Edge",
                     "Candy Crush Saga", "McAfee Security" } |->
            CASE name = "Microsoft Solitaire Collection" ->
                    BloatwareApp(name, << "UWP", "PowerShell" >>)
              [] name = "Microsoft Edge" ->
                    BloatwareApp(name, << "Winget", "PowerShell" >>)
              [] name = "Candy Crush Saga" ->
                    BloatwareApp(name, << "UWP", "PowerShell" >>)
              [] name = "McAfee Security" ->
                    BloatwareApp(name, << "PowerShell", "WMI" >>) ])

\* The names a caller passes: the database's and one it does not hold.
AppNames == DOMAIN BloatwareDatabase \union { "Notepad" }

\* struct UninstallResult: the fields uninstall_bloatware decides on.
UninstallResult(name, success, method_used) ==
    [ app_name |-> name, success |-> success, method_used |-> method_used ]

\* try_removal_method: Winget, PowerShell and UWP run a command and succeed
\* when it does; every other method is unsupported.
try_removal_method(bloatware_info, method, commandOk) ==
    UninstallResult(bloatware_info.name,
                    method \in {"Winget", "PowerShell", "UWP"} /\ commandOk,
                    method)

InitBloatware ==
    /\ NoBloatware
    /\ NoCleanup
    /\ disk = {}
    /\ NoScan
    /\ NoSession
    /\ NoTemp
    /\ NoRegistry

\* The task initialize_database spawns stores the database; a running call
\* holds the read lock from its lookup to its return.
StoreDatabase ==
    /\ b_pc \in {"idle", "lookup", "done"}
    /\ DOMAIN bloatware_database = {}
    /\ bloatware_database' = BloatwareDatabase
    /\ UNCHANGED << b_pc, app_name, b_calls, b_result, mi, attempts, cleaned,
                    removal_log, b_return >>
    /\ UNCHANGED << cvars, svars, xvars, rvars, tvars >>

\* uninstall_bloatware(app_name) is called.
CallUninstall ==
    /\ b_pc \in {"idle", "done"}
    /\ b_calls < MaxCalls
    /\ app_name' \in AppNames
    /\ b_calls' = b_calls + 1
    /\ b_result' = UninstallResult(app_name', FALSE, "Custom(Unknown)")
    /\ mi' = 1
    /\ b_return' = "none"
    /\ b_pc' = "lookup"
    /\ UNCHANGED << bloatware_database, attempts, cleaned, removal_log >>
    /\ UNCHANGED << cvars, svars, xvars, rvars, tvars >>

\* database.get(&app_name).ok_or_else(..)? and create_uninstall_backup, which
\* only logs its failures.
Lookup ==
    /\ b_pc = "lookup"
    /\ IF app_name \in DOMAIN bloatware_database
       THEN /\ b_pc' = "methods"
            /\ UNCHANGED b_return
       ELSE /\ b_return' = "Err"
            /\ b_pc' = "done"
    /\ UNCHANGED << bloatware_database, app_name, b_calls, b_result, mi, attempts,
                    cleaned, removal_log >>
    /\ UNCHANGED << cvars, svars, xvars, rvars, tvars >>

\* TryMethod without the break: the loop goes on after a success.
TryMethod_NoBreak ==
    /\ b_pc = "methods"
    /\ mi <= Len(bloatware_database[app_name].removal_methods)
    /\ \E commandOk \in BOOLEAN :
          LET bloatware_info == bloatware_database[app_name]
              method == bloatware_info.removal_methods[mi]
              uninstall_result == try_removal_method(bloatware_info, method, commandOk)
          IN  /\ attempts' = Append(attempts, [ call |-> b_calls, result |-> uninstall_result ])
              /\ b_result' = uninstall_result
              /\ mi' = mi + 1
              /\ UNCHANGED b_pc
    /\ UNCHANGED << bloatware_database, app_name, b_calls, cleaned, removal_log, b_return >>
    /\ UNCHANGED << cvars, svars, xvars, rvars, tvars >>

\* One iteration of `for method in &bloatware_info.removal_methods`.
TryMethod ==
    /\ b_pc = "methods"
    /\ mi <= Len(bloatware_database[app_name].removal_methods)
    /\ \E commandOk \in BOOLEAN :
          LET bloatware_info == bloatware_database[app_name]
              method == bloatware_info.removal_methods[mi]
              uninstall_result == try_removal_method(bloatware_info, method, commandOk)
          IN  /\ attempts' = Append(attempts, [ call |-> b_calls, result |-> uninstall_result ])
              /\ b_result' = uninstall_result
              /\ IF uninstall_result.success
                 THEN /\ b_pc' = "cleanup"
                      /\ UNCHANGED mi
                 ELSE /\ mi' = mi + 1
                      /\ UNCHANGED b_pc
    /\ UNCHANGED << bloatware_database, app_name, b_calls, cleaned, removal_log, b_return >>
    /\ UNCHANGED << cvars, svars, xvars, rvars, tvars >>

\* The loop ran out of methods.
EndMethods ==
    /\ b_pc = "methods"
    /\ mi > Len(bloatware_database[app_name].removal_methods)
    /\ b_pc' = "cleanup"
    /\ UNCHANGED << bloatware_database, app_name, b_calls, b_result, mi, attempts,
                    cleaned, removal_log, b_return >>
    /\ UNCHANGED << cvars, svars, xvars, rvars, tvars >>

\* if result.success { self.perform_deep_cleanup(bloatware_info).await?; }
\* perform_deep_cleanup only logs its failures.
DeepCleanup ==
    /\ b_pc = "cleanup"
    /\ b_result.success
    /\ cleaned' = Append(cleaned, [ call |-> b_calls, result |-> b_result ])
    /\ b_pc' = "log"
    /\ UNCHANGED << bloatware_database, app_name, b_calls, b_result, mi, attempts,
                    removal_log, b_return >>
    /\ UNCHANGED << cvars, svars, xvars, rvars, tvars >>

SkipDeepCleanup ==
    /\ b_pc = "cleanup"
    /\ ~b_result.success
    /\ b_pc' = "log"
    /\ UNCHANGED << bloatware_database, app_name, b_calls, b_result, mi, attempts,
                    cleaned, removal_log, b_return >>
    /\ UNCHANGED << cvars, svars, xvars, rvars, tvars >>

\* removal_log.push(result.clone()); Ok(result)
LogRemoval ==
    /\ b_pc = "log"
    /\ removal_log' = Append(removal_log, b_result)
    /\ b_return' = "Ok"
    /\ b_pc' = "done"
    /\ UNCHANGED << bloatware_database, app_name, b_calls, b_result, mi, attempts, cleaned >>
    /\ UNCHANGED << cvars, svars, xvars, rvars, tvars >>

NextBloatware ==
    \/ StoreDatabase
    \/ CallUninstall
    \/ Lookup
    \/ TryMethod
    \/ EndMethods
    \/ DeepCleanup
    \/ SkipDeepCleanup
    \/ LogRemoval

SpecBloatware == InitBloatware /\ [][NextBloatware]_vars

(***************************************************************************)
(* Properties of cleanup_duplicates                                        *)
(***************************************************************************)
\* How often record r occurs in the list s.
Count(s, r) == Cardinality({i \in 1..Len(s) : s[i] = r})

\* The members of the group whose partition is in files_to_keep and
\* files_to_remove (defined while c_pc = "delete").
CurrentFiles == duplicate_groups[gi].files

ToSet(s) == {s[i] : i \in 1..Len(s)}

\* C1: with create_backup = true, safe_delete_file is called only once the
\* archive has been created and finished; and when the backup fails the call
\* has returned with no deletion attempt, backup_created = false, no
\* backup_path, files_removed = 0, space_freed = 0 and a non-empty errors list.
C1_NoBackupNoDeletion ==
    /\ (create_backup /\ ~(archive.created /\ archive.finished))
          => deleteLog = <<>>
    /\ (create_backup /\ c_pc \notin {"start", "backup"}
           /\ ~(archive.created /\ archive.finished))
          => /\ c_pc = "done"
             /\ c_result.backup_created = FALSE
             /\ c_result.backup_path = "None"
             /\ c_result.files_removed = 0
             /\ c_result.space_freed = 0
             /\ c_result.errors /= <<>>

\* C1 witness: the backup of a group list that has something to remove failed
\* and the call returned.
C1_Witness ==
    /\ c_pc = "done"
    /\ create_backup
    /\ ~archive.created
    /\ \E g \in 1..Len(duplicate_groups) :
          RemoveSet(duplicate_groups[g].files, "KeepInProgramFiles") /= <<>>

\* C2 (as claimed): no member whose record carries is_critical = true is
\* removed by cleanup_duplicates.
C2_FlaggedCriticalNeverRemoved ==
    \A i \in 1..Len(deleteLog) :
        deleteLog[i].file.is_critical => deleteLog[i].outcome /= "ok"

\* The classification C3 states: the extension, lower-cased, is one of sys,
\* dll, exe, drv, ocx, or the path lies under System32, SysWOW64 or WinSxS.
CriticalAsClaimed(path) ==
    \/ /\ Extension(path).some
       /\ ToLower(Extension(path).val) \in
             { <<"s", "y", "s">>, <<"d", "l", "l">>, <<"e", "x", "e">>,
               <<"d", "r", "v">>, <<"o", "c", "x">> }
    \/ StartsWith(path, <<"C:", "Windows", "System32">>)
    \/ StartsWith(path, <<"C:", "Windows", "SysWOW64">>)
    \/ StartsWith(path, <<"C:", "Windows", "WinSxS">>)

\* C3 (as claimed): safe_delete_file returns the guard's error, without
\* running the delete command, for every path that is critical.
C3_CriticalPathRejected ==
    \A i \in 1..Len(deleteLog) :
        CriticalAsClaimed(deleteLog[i].file.path) => deleteLog[i].outcome = "guard"

\* C8 (as claimed): for every group and every strategy the keep list and
\* the remove list have no member in common, together they hold exactly the
\* group's members, and KeepNewest and KeepOldest keep exactly one member.
C8_KeepRemovePartition ==
    c_pc = "delete" =>
        /\ ToSet(files_to_keep) \cap ToSet(files_to_remove) = {}
        /\ ToSet(files_to_keep) \cup ToSet(files_to_remove) = ToSet(CurrentFiles)
        /\ keep_strategy \in {"KeepNewest", "KeepOldest"} => Len(files_to_keep) = 1

\* The preferred location of C9 and C10: a system directory for KeepInSystem,
\* a Program Files directory for KeepInProgramFiles.
PreferredAsClaimed(path, strategy) ==
    IF strategy = "KeepInSystem"
    THEN \/ StartsWith(path, <<"C:", "Windows">>)
         \/ StartsWith(path, <<"C:", "System Volume Information">>)
         \/ StartsWith(path, <<"C:", "$Recycle.Bin">>)
    ELSE \/ StartsWith(path, <<"C:", "Program Files">>)
         \/ StartsWith(path, <<"C:", "Program Files (x86)">>)

\* C9 (as claimed): every group of at least 2 members gets a non-empty keep
\* list and a non-empty remove list, under every strategy.
C9_NeverEmptyKeepOrRemove ==
    (c_pc = "delete" /\ Len(CurrentFiles) >= 2)
        => (files_to_keep /= <<>> /\ files_to_remove /= <<>>)

\* C9 (amended): under KeepNewest and KeepOldest every group of at least 2
\* members gets a non-empty keep list and a non-empty remove list; under
\* KeepInSystem and KeepInProgramFiles the keep list is empty exactly when no
\* member lies in the preferred location and the remove list is empty exactly
\* when every member does.
C9_NonEmptyForNewestOldest ==
    (c_pc = "delete" /\ Len(CurrentFiles) >= 2) =>
        /\ keep_strategy \in {"KeepNewest", "KeepOldest"}
              => (files_to_keep /= <<>> /\ files_to_remove /= <<>>)
        /\ keep_strategy \in {"KeepInSystem", "KeepInProgramFiles"} =>
              /\ files_to_keep = <<>> <=>
                    \A r \in ToSet(CurrentFiles) : ~PreferredAsClaimed(r.path, keep_strategy)
              /\ files_to_remove = <<>> <=>
                    \A r \in ToSet(CurrentFiles) : PreferredAsClaimed(r.path, keep_strategy)

\* C9 witness: a group of two members partitioned under KeepOldest.
C9_Witness ==
    /\ c_pc = "delete"
    /\ keep_strategy = "KeepOldest"
    /\ Len(CurrentFiles) = 2
    /\ Len(files_to_keep) = 1
    /\ Len(files_to_remove) = 1

\* C10: under KeepInSystem and KeepInProgramFiles the keep list is the
\* members in the preferred location, in member order, and the remove list is
\* the others; with no member there, the keep list is empty and the remove
\* list is the whole group.
C10_PreferKeepsExactlyMatching ==
    (c_pc = "delete" /\ keep_strategy \in {"KeepInSystem", "KeepInProgramFiles"}) =>
        LET Match(f) == PreferredAsClaimed(f.path, keep_strategy)
            Other(f) == ~PreferredAsClaimed(f.path, keep_strategy)
        IN /\ files_to_keep = SelectSeq(CurrentFiles, Match)
           /\ files_to_remove = SelectSeq(CurrentFiles, Other)
           /\ (\A i \in 1..Len(CurrentFiles) : Other(CurrentFiles[i]))
                 => (files_to_keep = <<>> /\ files_to_remove = CurrentFiles)

\* C10 witness: under KeepInProgramFiles a group with a member under
\* Program Files (x86) and a member elsewhere has been partitioned.
C10_Witness ==
    /\ c_pc = "delete"
    /\ keep_strategy = "KeepInProgramFiles"
    /\ \E i \in 1..Len(files_to_keep) : files_to_keep[i].path.dir = ProgramFilesX86
    /\ files_to_remove /= <<>>

\* The place of the member KeepNewest (sign = -1) or KeepOldest (sign = 1)
\* keeps, as C11 states it: the first place, in member order, that holds the
\* extreme modified timestamp.
FirstExtreme(files, sign) ==
    CHOOSE k \in 1..Len(files) :
        /\ \A j \in 1..Len(files) : sign * files[k].modified <= sign * files[j].modified
        /\ \A j \in 1..(k - 1) : sign * files[k].modified < sign * files[j].modified

\* C11: under KeepNewest the one kept member has the greatest modified
\* timestamp and under KeepOldest the smallest; among members tied on that
\* timestamp the kept one is the first in the group's member order, and every
\* other member occurrence is in the remove list.
C11_KeepsFirstExtreme ==
    (c_pc = "delete" /\ keep_strategy \in {"KeepNewest", "KeepOldest"}) =>
        LET sign == IF keep_strategy = "KeepNewest" THEN -1 ELSE 1
            k == FirstExtreme(CurrentFiles, sign)
        IN /\ files_to_keep = << CurrentFiles[k] >>
           /\ \A j \in 1..Len(CurrentFiles) :
                 sign * CurrentFiles[k].modified <= sign * CurrentFiles[j].modified
           /\ \A r \in ToSet(CurrentFiles) :
                 Count(files_to_remove, r) =
                    Count(CurrentFiles, r) - (IF r = CurrentFiles[k] THEN 1 ELSE 0)

\* C11 witness: under KeepNewest a group whose two newest members are
\* different files with one timestamp has been partitioned, and the kept
\* member is the earlier of the two.
C11_Witness ==
    /\ c_pc = "delete"
    /\ keep_strategy = "KeepNewest"
    /\ \E i, j \in 1..Len(CurrentFiles) :
          /\ i < j
          /\ CurrentFiles[i] /= CurrentFiles[j]
          /\ CurrentFiles[i].modified = CurrentFiles[j].modified
          /\ \A m \in 1..Len(CurrentFiles) :
                CurrentFiles[m].modified <= CurrentFiles[i].modified
          /\ files_to_keep = << CurrentFiles[i] >>
          /\ \E m \in 1..Len(files_to_remove) : files_to_remove[m] = CurrentFiles[j]

\* The remove lists of all the groups, one after the other (a group the
\* partition panics on has none).
RECURSIVE ExpectedDeletes(_, _)
ExpectedDeletes(groups, strategy) ==
    IF groups = <<>> THEN <<>>
    ELSE (IF PartitionPanics(groups[1].files, strategy) THEN <<>>
          ELSE RemoveSet(groups[1].files, strategy))
         \o ExpectedDeletes(Tail(groups), strategy)

\* Whether cleanup_duplicates has returned from the end of its group loop
\* (and not from a failed backup).
ReturnedFromLoop ==
    /\ c_pc = "done"
    /\ create_backup => (archive.created /\ archive.finished)

\* C12: a failed deletion does not stop the run: when cleanup_duplicates
\* returns from its group loop, safe_delete_file has been called exactly once
\* for every member occurrence of every remove list, in order, whatever the
\* outcomes of the earlier calls, and what is returned is a CleanupResult.
C12_FailedDeleteDoesNotStop ==
    ReturnedFromLoop =>
        /\ [i \in 1..Len(deleteLog) |-> deleteLog[i].file]
              = ExpectedDeletes(duplicate_groups, keep_strategy)
        /\ c_result.files_removed =
              Cardinality({i \in 1..Len(deleteLog) : deleteLog[i].outcome = "ok"})

\* C12 witness: the call has returned after a rejected or failed deletion
\* that was followed by a successful one in the same group and by a
\* successful one in a later group.
C12_Witness ==
    /\ c_pc = "done"
    /\ \E i, j, k \in 1..Len(deleteLog) :
          /\ i < j /\ j < k
          /\ deleteLog[i].outcome /= "ok"
          /\ deleteLog[j].outcome = "ok" /\ deleteLog[j].group = deleteLog[i].group
          /\ deleteLog[k].outcome = "ok" /\ deleteLog[k].group > deleteLog[i].group

\* C13 (as claimed): every deletion that failed, by the guard or by the
\* operating system, has an entry of its own in CleanupResult.errors.
C13_FailedDeleteReported ==
    c_pc = "done" =>
        Len(c_result.errors) >=
            Cardinality({i \in 1..Len(deleteLog) : deleteLog[i].outcome /= "ok"})

\* C14 (as claimed): the entries of the finished archive are the members of
\* the remove lists and no member that is kept (every file being readable,
\* every entry accepted and no other call deleting files).
C14_BackupHoldsRemoveSets ==
    (archive.finished /\ backupEnv = "ok" /\ t_pc = "idle") =>
        LET expected == ExpectedDeletes(duplicate_groups, keep_strategy)
        IN ToSet(archive.entries) = {expected[i].path : i \in 1..Len(expected)}

\* C15 (as claimed): when backup_created is true, every file the run removed
\* has an entry in the archive, also when the writer could not read a file.
C15_RemovedFilesAreInArchive ==
    c_result.backup_created =>
        \A i \in 1..Len(deleteLog) :
            deleteLog[i].outcome = "ok"
                => deleteLog[i].file.path \in ToSet(archive.entries)

\* C16 (as claimed): cleanup_duplicates never panics, whatever group list
\* the caller passes.
C16_CleanupNeverPanics ==
    c_pc /= "panicked"

\* The sizes recorded in the FileRecords of the deletions that succeeded,
\* among the first n safe_delete_file calls, added up.
RECURSIVE SizeOfDeleted(_)
SizeOfDeleted(n) ==
    IF n = 0 THEN 0
    ELSE (IF deleteLog[n].outcome = "ok" THEN deleteLog[n].file.size ELSE 0)
         + SizeOfDeleted(n - 1)

\* C24: when cleanup_duplicates returns, files_removed is the number of
\* safe_delete_file calls that succeeded and space_freed the sum of the sizes
\* recorded for those files, over all groups; a failed deletion adds to
\* neither, and within a group the two running counts are those of the
\* group's successful deletions so far.
C24_CountsOnlySuccessfulDeletes ==
    /\ c_pc = "done" =>
          /\ c_result.files_removed =
                Cardinality({i \in 1..Len(deleteLog) : deleteLog[i].outcome = "ok"})
          /\ c_result.space_freed = SizeOfDeleted(Len(deleteLog))
    /\ c_pc = "delete" =>
          removed_count =
             Cardinality({i \in 1..Len(deleteLog) :
                             deleteLog[i].group = gi /\ deleteLog[i].outcome = "ok"})

\* C24 witness: the call has returned after deletions that succeeded, of
\* files of different sizes in different groups, and a deletion that failed;
\* one of the files it removed and counted was removed and counted by
\* cleanup_temp_files as well, the two Remove-Item commands having run at
\* the same time.
C24_Witness ==
    /\ c_pc = "done"
    /\ \E i, j, k \in 1..Len(deleteLog) :
          /\ deleteLog[i].outcome = "ok" /\ deleteLog[j].outcome = "ok"
          /\ deleteLog[i].file.size /= deleteLog[j].file.size
          /\ deleteLog[i].group /= deleteLog[j].group
          /\ deleteLog[k].outcome /= "ok"
    /\ c_result.files_removed = 2
    /\ c_result.space_freed = 3000
    /\ t_pc = "done"
    /\ t_result.files_removed = 1
    /\ \E i \in 1..Len(deleteLog) :
          deleteLog[i].outcome = "ok" /\ deleteLog[i].file.path = PathA

(***************************************************************************)
(* Properties of scan_duplicates                                           *)
(***************************************************************************)
Groups == s_result.duplicate_groups

\* Whether the record at place k of all_files is a member of group g.
InGroup(k, g) == \E m \in 1..Len(g.files) : g.files[m].path = all_files[k].path

\* C4: every emitted DuplicateGroup has at least 2 members and every member's
\* hash field is the group's hash.
C4_GroupsHaveTwoMembersOfOneHash ==
    \A g \in 1..Len(Groups) :
        /\ Len(Groups[g].files) >= 2
        /\ \A m \in 1..Len(Groups[g].files) :
              Groups[g].files[m].hash = Groups[g].hash

\* C4 witness: the scan has returned a group of three members next to a
\* hashed file that is in no group.
C4_Witness ==
    /\ s_pc = "done"
    /\ \E g \in 1..Len(Groups) : Len(Groups[g].files) = 3
    /\ \E k \in 1..Len(all_files) :
          /\ \E h \in 1..Len(hashed) : hashed[h] = all_files[k].path
          /\ \A g \in 1..Len(Groups) : ~InGroup(k, Groups[g])

\* C5 (as claimed): all members of an emitted DuplicateGroup have the group's
\* size, whatever the hash function gives.
C5_GroupMembersShareSize ==
    \A g \in 1..Len(Groups) :
        \A m \in 1..Len(Groups[g].files) :
            Groups[g].files[m].size = Groups[g].size

\* C6 (as claimed): a collected file of zero bytes, or whose size no other
\* collected non-empty file has, is never passed to calculate_file_hash and
\* is in no emitted group.
C6_LoneSizeNeverHashed ==
    \A k \in 1..Len(all_files) :
        (\/ all_files[k].size = 0
         \/ \A j \in 1..Len(all_files) :
               all_files[j].path /= all_files[k].path
                  => all_files[j].size /= all_files[k].size)
        => /\ \A h \in 1..Len(hashed) : hashed[h] /= all_files[k].path
           /\ \A g \in 1..Len(Groups) : ~InGroup(k, Groups[g])

\* The non-empty collected records.
NonEmptyPlaces == {k \in 1..Len(all_files) : all_files[k].size > 0}

\* C7: when the scan has returned, any two collected non-empty files of the
\* same size whose hashing gave the same hash are members of one emitted
\* group, and exactly one group carries that hash; three same-size files
\* hashing to H1, H1, H2 give exactly one group, of 2 members, with
\* potential_savings equal to the file size.
C7_GroupsAreMaximal ==
    s_pc = "done" =>
        /\ \A i, j \in NonEmptyPlaces :
              ( /\ i /= j
                /\ all_files[i].size = all_files[j].size
                /\ fhash[FileAt(all_files[i].path)] /= "HashFails"
                /\ fhash[FileAt(all_files[i].path)] = fhash[FileAt(all_files[j].path)] )
              => /\ \E g \in 1..Len(Groups) : InGroup(i, Groups[g]) /\ InGroup(j, Groups[g])
                 /\ Cardinality({g \in 1..Len(Groups) :
                       Groups[g].hash = fhash[FileAt(all_files[i].path)]}) = 1
        /\ ( /\ Cardinality(NonEmptyPlaces) = 3
             /\ \A i, j \in NonEmptyPlaces : all_files[i].size = all_files[j].size
             /\ Cardinality({k \in NonEmptyPlaces : fhash[FileAt(all_files[k].path)] = "H1"}) = 2
             /\ Cardinality({k \in NonEmptyPlaces : fhash[FileAt(all_files[k].path)] = "H2"}) = 1 )
           => /\ Len(Groups) = 1
              /\ Groups[1].hash = "H1"
              /\ Len(Groups[1].files) = 2
              /\ Groups[1].potential_savings = Groups[1].size
              /\ \A k \in NonEmptyPlaces :
                    fhash[FileAt(all_files[k].path)] = "H2" => ~InGroup(k, Groups[1])

\* C7 witness: the scan of three same-size files hashing to H1, H1, H2 has
\* returned.
C7_Witness ==
    /\ s_pc = "done"
    /\ Cardinality(NonEmptyPlaces) = 3
    /\ \A i, j \in NonEmptyPlaces : all_files[i].size = all_files[j].size
    /\ Cardinality({k \in NonEmptyPlaces : fhash[FileAt(all_files[k].path)] = "H1"}) = 2
    /\ Cardinality({k \in NonEmptyPlaces : fhash[FileAt(all_files[k].path)] = "H2"}) = 1
    /\ Len(Groups) = 1

\* The system-file classification C17 states: under a system path, or a
\* file name that starts with '.', or desktop.ini, or thumbs.db.
SystemAsClaimed(path) ==
    \/ PreferredAsClaimed(path, "KeepInSystem")
    \/ path.name[1] = "."
    \/ FileName(path) \in {"desktop.ini", "thumbs.db"}

\* C17 (as claimed): no file that classifies as critical or as a system file
\* is in the walker's result, so none is counted in total_files or is a
\* member of a group.
C17_NoCriticalOrSystemFileCollected ==
    /\ \A k \in 1..Len(all_files) :
          /\ ~CriticalAsClaimed(all_files[k].path)
          /\ ~SystemAsClaimed(all_files[k].path)
    /\ \A g \in 1..Len(Groups) : \A m \in 1..Len(Groups[g].files) :
          /\ ~CriticalAsClaimed(Groups[g].files[m].path)
          /\ ~SystemAsClaimed(Groups[g].files[m].path)

\* C18 (as claimed): no collected file lies under an entry of
\* excluded_paths, whatever the root, and none is a member of a group.
C18_NoFileUnderExcludedPath ==
    /\ \A k \in 1..Len(all_files) : \A excluded \in excluded_paths :
          ~StartsWith(all_files[k].path, excluded)
    /\ \A g \in 1..Len(Groups) : \A m \in 1..Len(Groups[g].files) :
          \A excluded \in excluded_paths :
              ~StartsWith(Groups[g].files[m].path, excluded)

\* The roots of the call that are existing directories outside the
\* exclusion list.
WalkedRoots ==
    {d \in 1..Len(directories) :
        /\ \E i \in FileIds : DirStartsWith(PathOfFile(i).dir, directories[d])
        /\ \A excluded \in excluded_paths : ~DirStartsWith(directories[d], excluded)}

\* Whether the loop over the roots is over.
RootsDone ==
    \/ s_pc \in {"hash", "done"}
    \/ (s_pc = "collect" /\ di > Len(directories))

\* The places of all_files that hold file i.
PlacesOf(i) == {k \in 1..Len(all_files) : all_files[k].path = PathOfFile(i)}

\* C19: once the roots have been gone through, a root that does not exist
\* or is not a directory has contributed no file and no error: every file
\* the walker accepts is collected once for each existing directory root it
\* lies under and for no other root, no other file is collected, and the
\* errors hold no scan failure.
C19_BadRootContributesNothing ==
    RootsDone =>
        /\ \A i \in FileIds :
              Cardinality(PlacesOf(i)) =
                 IF Collected(i, fsize)
                 THEN Cardinality({d \in WalkedRoots :
                                      StartsWith(PathOfFile(i), directories[d])})
                 ELSE 0
        /\ \A e \in 1..Len(s_result.errors) : s_result.errors[e][1] /= "Failed to scan"

\* C19 witness: a scan whose roots are a missing path, a regular file and a
\* directory has returned with the directory's files collected and grouped.
C19_Witness ==
    /\ s_pc = "done"
    /\ \E d \in 1..Len(directories) : directories[d] = MissingDir
    /\ \E d \in 1..Len(directories) :
          /\ directories[d] = FileRoot
          /\ \E i \in FileIds : StartsWith(PathOfFile(i), FileRoot) /\ Collected(i, fsize)
    /\ WalkedRoots /= {}
    /\ Cardinality(PlacesOf(1)) = 1
    /\ Groups /= <<>>

\* The places of all_files whose bucket is hashed: non-empty, with another
\* collected file of the same size.
HashedPlaces ==
    {k \in NonEmptyPlaces :
        \E j \in NonEmptyPlaces : j /= k /\ all_files[j].size = all_files[k].size}

HashOfPlace(k) == fhash[FileAt(all_files[k].path)]

\* C20: a hash failure does not abort the scan: when the scan has returned,
\* calculate_file_hash has been called once for every record of every
\* bucket of two or more files, each failing record has one error of its
\* own and is in no group, the errors hold nothing else, and the records
\* that were hashed with success are grouped as if no hashing had failed.
C20_HashFailureIsPerFile ==
    s_pc = "done" =>
        /\ \A i \in FileIds :
              /\ Cardinality({h \in 1..Len(hashed) : hashed[h] = PathOfFile(i)})
                    = Cardinality(PlacesOf(i) \cap HashedPlaces)
              /\ Cardinality({e \in 1..Len(s_result.errors) :
                                 s_result.errors[e] = <<"Failed to hash", PathOfFile(i)>>})
                    = IF fhash[i] = "HashFails"
                      THEN Cardinality(PlacesOf(i) \cap HashedPlaces) ELSE 0
        /\ Len(s_result.errors) =
              Cardinality({k \in HashedPlaces : HashOfPlace(k) = "HashFails"})
        /\ \A k \in HashedPlaces : HashOfPlace(k) = "HashFails" =>
              \A g \in 1..Len(Groups) : ~InGroup(k, Groups[g])
        /\ \A i, j \in HashedPlaces :
              ( /\ i /= j
                /\ all_files[i].size = all_files[j].size
                /\ HashOfPlace(i) /= "HashFails"
                /\ HashOfPlace(i) = HashOfPlace(j) )
              => \E g \in 1..Len(Groups) : InGroup(i, Groups[g]) /\ InGroup(j, Groups[g])

\* C20 witness: the scan has returned with the error of a file whose
\* hashing failed, a file after it in the same bucket hashed and grouped,
\* and a file of another bucket hashed.
C20_Witness ==
    /\ s_pc = "done"
    /\ \E k, j, l \in HashedPlaces :
          /\ HashOfPlace(k) = "HashFails"
          /\ \E e \in 1..Len(s_result.errors) :
                s_result.errors[e] = <<"Failed to hash", all_files[k].path>>
          /\ k < j
          /\ all_files[j].size = all_files[k].size
          /\ \E g \in 1..Len(Groups) : InGroup(j, Groups[g])
          /\ all_files[l].size /= all_files[k].size
          /\ \E h \in 1..Len(hashed) : hashed[h] = all_files[l].path

\* C23 (as claimed): in every emitted group of n members, total_size is the
\* sum of the members' sizes, potential_savings is total_size - size (a
\* subtraction that does not go below zero), is at least size * (n - 1) and
\* is positive.
C23_SavingsAtLeastOtherCopies ==
    \A g \in 1..Len(Groups) :
        LET group == Groups[g]
            n == Len(group.files)
        IN /\ group.total_size = SumSizes(group.files)
           /\ group.total_size >= group.size
           /\ group.potential_savings = group.total_size - group.size
           /\ group.potential_savings >= group.size * (n - 1)
           /\ group.potential_savings > 0

(***************************************************************************)
(* Properties of sessions                                                  *)
(***************************************************************************)
\* The membership of a ScanResult: the set of the groups' member-path sets.
MemberSets(result) ==
    { {result.duplicate_groups[g].files[m].path :
          m \in 1..Len(result.duplicate_groups[g].files)} :
      g \in 1..Len(result.duplicate_groups) }

\* C21: the scans of one session, made on the same roots over a tree that
\* does not change, return groups of the same membership, whatever the
\* order of the groups, the scan identifier and the time.
C21_RescanSameMembership ==
    \A i, j \in 1..Len(returned) :
        MemberSets(returned[i]) = MemberSets(returned[j])

\* C21 witness: two scans have returned two or more groups each, in
\* different orders or with their members in different orders.
C21_Witness ==
    /\ Len(returned) = 2
    /\ Len(returned[1].duplicate_groups) >= 2
    /\ returned[1].duplicate_groups /= returned[2].duplicate_groups

\* C22 (as claimed): every scan that returned has its result in the store,
\* under an identifier of its own: after n scans the store holds n results.
C22_StoreHoldsEveryScan ==
    /\ Cardinality(DOMAIN scan_results) = Len(returned)
    /\ \A i \in 1..Len(returned) :
          \E id \in DOMAIN scan_results : scan_results[id] = returned[i]

\* C25 (as claimed): a supplied callback is invoked once for every regular
\* file the walker visits, the files it then skips included, and over the
\* whole call, all roots together, the files_scanned it reports never
\* decreases.
C25_ProgressOncePerFileMonotonic ==
    progress_callback =>
        /\ RootsDone =>
              \A i \in FileIds :
                  Cardinality({k \in 1..Len(progress) :
                                  progress[k].current_file = PathOfFile(i)})
                     = Cardinality({d \in WalkedRoots :
                                       StartsWith(PathOfFile(i), directories[d])})
        /\ \A k \in 1..(Len(progress) - 1) :
              progress[k].files_scanned <= progress[k + 1].files_scanned

\* C26 (as claimed): when the groups of a scan are cleaned up under
\* KeepNewest or KeepOldest, the members of a group have pairwise distinct
\* paths, the path of the kept member is never in the remove list, and when
\* the call returns a copy of every group is still on disk (no other call
\* deleting files).
C26_KeptCopyNeverDeleted ==
    (keep_strategy \in {"KeepNewest", "KeepOldest"} /\ t_pc = "idle") =>
        /\ c_pc = "delete" =>
              /\ \A i, j \in 1..Len(CurrentFiles) :
                    i /= j => CurrentFiles[i].path /= CurrentFiles[j].path
              /\ \A m \in 1..Len(files_to_remove) :
                    files_to_remove[m].path /= files_to_keep[1].path
        /\ c_pc = "done" =>
              \A g \in 1..Len(duplicate_groups) :
                  \E m \in 1..Len(duplicate_groups[g].files) :
                      duplicate_groups[g].files[m].path \in disk

\* C27: no member of a group a scan returned lies in a system directory, and
\* KeepInSystem applied to the groups of a scan keeps nothing: the remove
\* list of every group is the whole group.
C27_KeepInSystemKeepsNothing ==
    /\ \A i \in 1..Len(returned) :
          \A g \in 1..Len(returned[i].duplicate_groups) :
              \A m \in 1..Len(returned[i].duplicate_groups[g].files) :
                  ~PreferredAsClaimed(returned[i].duplicate_groups[g].files[m].path,
                                      "KeepInSystem")
    /\ (c_pc = "delete" /\ keep_strategy = "KeepInSystem") =>
          /\ files_to_keep = <<>>
          /\ files_to_remove = CurrentFiles

\* C27 witness: a scan of C:\, which holds files under C:\Windows, has
\* returned groups and one of them has been partitioned under KeepInSystem.
C27_Witness ==
    /\ c_pc = "delete"
    /\ keep_strategy = "KeepInSystem"
    /\ \E d \in 1..Len(directories) :
          /\ directories[d] = CDrive
          /\ \E i \in FileIds :
                /\ StartsWith(PathOfFile(i), directories[d])
                /\ PreferredAsClaimed(PathOfFile(i), "KeepInSystem")
    /\ Len(files_to_remove) >= 2

\* C28 (as claimed): the archives of the runs that made a backup have paths
\* of their own, and each is in the backup directory as its run wrote it:
\* no later run truncates or overwrites it.
C28_BackupNeverOverwritten ==
    /\ \A i, j \in 1..Len(backups_made) :
          i /= j => backups_made[i].path /= backups_made[j].path
    /\ \A i \in 1..Len(backups_made) :
          /\ backups_made[i].path \in DOMAIN backup_dir
          /\ backup_dir[backups_made[i].path] = backups_made[i].archive

(***************************************************************************)
(* Properties of delete_registry_key                                       *)
(***************************************************************************)
\* The reg delete commands that were spawned, in order.
DeletesRun == SelectSeq(commands, LAMBDA c : c.command = "reg delete" /\ c.outcome # "no_spawn")

\* The commands of one call.
CommandsOf(call) == SelectSeq(commands, LAMBDA c : c.call = call)

\* C29: reg delete is executed only when force is set or the key contains
\* no dangerous pattern, and only straight after a successful reg export of
\* the same key in the same call; a call that the guard rejects or whose key
\* backup fails runs no delete command, returns an error and adds nothing to
\* operations_log; each delete command that ran added exactly one operation
\* record, carrying the command's success status, by the time its call
\* returned (between the command's output and the write lock of
\* operations_log the record of the running call is still to come).
C29_DeleteOnlyAfterGuardAndBackup ==
    /\ \A k \in 1..Len(commands) :
          commands[k].command = "reg delete" =>
             /\ commands[k].force \/ ~is_dangerous_key(commands[k].key)
             /\ k > 1
             /\ commands[k - 1] = [ commands[k] EXCEPT !.command = "reg export",
                                                       !.outcome = "ok" ]
    /\ Len(operations_log) = Len(DeletesRun) - (IF r_pc = "log" THEN 1 ELSE 0)
    /\ (r_pc = "log") => (r_return = "none" /\ commands[Len(commands)].call = r_calls
                             /\ commands[Len(commands)].command = "reg delete")
    /\ \A k \in 1..Len(operations_log) :
          operations_log[k] =
             RegistryOperation(DeletesRun[k].key, DeletesRun[k].outcome = "ok")
    /\ \A call \in 1..r_calls :
          LET mine == CommandsOf(call) IN
          /\ Len(mine) <= 2
          /\ (Len(mine) = 2 => mine[2].command = "reg delete")
          /\ (Len(mine) >= 1 => mine[1].command = "reg export")
    /\ (r_pc = "done" /\ (\A k \in 1..Len(commands) :
                             commands[k].call = r_calls => commands[k].command # "reg delete"))
          => r_return = "Err"
    /\ (r_pc = "done" /\ r_return = "Ok")
          => /\ Len(operations_log) > 0
             /\ operations_log[Len(operations_log)] = RegistryOperation(key_path, TRUE)

\* C29 witness: a forced delete of a dangerous key ran and failed, leaving
\* one unsuccessful record, and the next call, for a dangerous key without
\* force, was rejected with an error, no command and no new record.
C29_Witness ==
    /\ r_pc = "done"
    /\ r_calls = 2
    /\ r_return = "Err"
    /\ ~force
    /\ is_dangerous_key(key_path)
    /\ Len(commands) = 2
    /\ commands[1].force
    /\ is_dangerous_key(commands[1].key)
    /\ commands[2].command = "reg delete"
    /\ commands[2].outcome = "fails"
    /\ Len(operations_log) = 1
    /\ ~operations_log[1].success


(***************************************************************************)
(* Properties of uninstall_bloatware                                       *)
(***************************************************************************)
\* The results of the methods one call tried, in order.
AttemptsOf(call) == SelectSeq(attempts, LAMBDA a : a.call = call)

\* The calls that tried a method: every database entry lists some, so these
\* are the calls that found their application.
CallsThatFound == { attempts[k].call : k \in 1..Len(attempts) }

\* C30: the methods a call tries are the first methods of its application's
\* removal_methods, in the listed order, and none follows one that reported
\* success; perform_deep_cleanup runs only for a call whose final result has
\* success = true; and removal_log gains exactly one UninstallResult for
\* each call that found its application, none for a call that did not.
C30_MethodsInOrderOneLogPerFoundCall ==
    /\ \A call \in 1..b_calls :
          LET mine == AttemptsOf(call) IN
          Len(mine) > 0 =>
             LET listed == BloatwareDatabase[mine[1].result.app_name].removal_methods IN
             /\ Len(mine) <= Len(listed)
             /\ \A k \in 1..Len(mine) :
                   /\ mine[k].result.method_used = listed[k]
                   /\ mine[k].result.app_name = mine[1].result.app_name
                   /\ (k < Len(mine) => ~mine[k].result.success)
    /\ \A k \in 1..Len(cleaned) :
          LET mine == AttemptsOf(cleaned[k].call) IN
          /\ cleaned[k].result.success
          /\ Len(mine) > 0
          /\ cleaned[k].result = mine[Len(mine)].result
    /\ \A j, k \in 1..Len(cleaned) : cleaned[j].call = cleaned[k].call => j = k
    /\ b_pc \in {"idle", "done"} =>
          /\ Len(removal_log) = Cardinality(CallsThatFound)
          /\ Len(cleaned) = Len(SelectSeq(removal_log, LAMBDA r : r.success))
          /\ (b_return = "Err" => b_calls \notin CallsThatFound)
          /\ (b_return = "Ok" =>
                 /\ b_calls \in CallsThatFound
                 /\ removal_log[Len(removal_log)] =
                       AttemptsOf(b_calls)[Len(AttemptsOf(b_calls))].result)
    /\ b_pc = "log" => Len(removal_log) + 1 = Cardinality(CallsThatFound)

\* C30 witness: the first call did not find its application and logged
\* nothing; the second found it, its first method failed, its second
\* succeeded, deep cleanup ran and one result was logged.
C30_Witness ==
    /\ b_pc = "done"
    /\ b_calls = 2
    /\ b_return = "Ok"
    /\ AttemptsOf(1) = <<>>
    /\ Len(AttemptsOf(2)) = 2
    /\ ~attempts[1].result.success
    /\ attempts[2].result.success
    /\ Len(cleaned) = 1
    /\ Len(removal_log) = 1
    /\ removal_log[1].success

=============================================================================
